---- MODULE Spec2Model ----
(***************************************************************************)
(* A model of the layered PDF reader of inside_pdf:                        *)
(*   L1  ByteStream   (byte_stream.py)   block-buffered byte reader        *)
(*   L2  TokenStream  (token_stream.py)  tokeniser with one byte of        *)
(*                                       look-ahead (cc) and a peek queue  *)
(*   L3  ObjectStream (object_stream.py) object parser with one token of   *)
(*                                       look-ahead (tok)                  *)
(*                                                                         *)
(* Every method is an operator from the object's state (a record of its    *)
(* fields) to a result record  [st, r, exc]:  the state after the call,    *)
(* the value returned, and the Python exception raised ("none" when the    *)
(* call returns).  A loop that never ends is reported as exc = "hang".     *)
(* A byte is an integer 0..255; -1 is the end-of-file sentinel.            *)
(***************************************************************************)
EXTENDS Integers, Sequences, FiniteSets, TLC

\* Python evaluates a call once and binds its result to a name:
\*     (CHOOSE val \in {body : a \in {e}} : TRUE)
\* is body with a standing for the value of e, evaluated once; the
\* statements of a method read from the last line of such an expression
\* upwards

VARIABLES
    file,       \* the bytes of the file being read (never changes)
    bs,         \* L1 : the ByteStream object under test
    last,       \* L1 : the last call made on bs, with its result
    prev,       \* L1 : the call before that
    base,       \* L1 : offset given to the last reset (0 at the start)
    delivered,  \* L1 : the bytes returned by next_byte / next_stream since then
    intact,     \* L1 : no call has failed (-1 or exception) since then
    called,     \* L1 : the methods called on bs so far
    tk,         \* L2 : the TokenStream object under test
    ref,        \* L2 : a second TokenStream on the same file, which is only
                \*      ever asked for its next token (no peek)
    tkLast,     \* L2 : the last call made on tk, with its result
    justPeeked, \* L2 : the result of peek_token, when it was the last call
    tracking,   \* L2 : tk and ref have returned from every call so far
    ob,         \* L3 : the ObjectStream object under test
    obLast      \* L3 : the last call made on ob, with its result

bsvars == <<bs, last, prev, base, delivered, intact, called>>
tkvars == <<tk, ref, tkLast, justPeeked, tracking>>
obvars == <<ob, obLast>>
vars == <<file, bs, last, prev, base, delivered, intact, called,
          tk, ref, tkLast, justPeeked, tracking, ob, obLast>>

----------------------------------------------------------------------------
(* Bounds of the model *)

MaxFileLen == 4     \* L1 : longest file read through a ByteStream
MaxBlk == 2         \* L1 : largest block size
MaxReq == 3         \* L1 : largest n of next_byte(n), peek_byte(n), next_stream(n)
MaxShort == 3       \* L2 : longest file made of the bytes of TKAlphabet
MaxPeek == 2        \* L2 : most tokens waiting in the peek queue
MaxDeref == 2       \* L3 : deepest nesting of deref_object within next_object
MaxWords == 3       \* L3 : longest file made of the words of OBWords
MaxObjn == 2        \* L3 : largest object number asked of deref_object
MaxSeek == 3        \* L3 : largest offset asked of ObjectStream.seek

----------------------------------------------------------------------------
(* Python values *)

EOFB == 0 - 1

Min(a, b) == IF a < b THEN a ELSE b

\* An int, or a bytes / bytearray object
PyInt(n) == [k |-> "int", v |-> n]
PyBytes(s) == [k |-> "bytes", v |-> s]
PyNone == [k |-> "none", v |-> 0]

\* s[a:b] of Python, 0-based, for 0 <= a
Slice(s, a, b) == SubSeq(s, a + 1, Min(b, Len(s)))

\* s[a:]
SliceFrom(s, a) == SubSeq(s, a + 1, Len(s))

----------------------------------------------------------------------------
(* L1 : ByteStream *)

\* f.read(blk_sz) at file position fpos
FRead(fpos, n) == Slice(file, fpos, fpos + n)

\* ByteStream.__init__ : fpos is the position of the file object f
BSInit(blk) ==
    [blk_sz |-> blk, buf |-> <<>>, i |-> 0, peek_ahead |-> FALSE,
     next_buf |-> <<>>, fpos |-> 0, pos |-> 0]

\* ByteStream.reset
BSReset(b, offset) ==
    [b EXCEPT !.fpos = offset, !.buf = <<>>, !.i = 0, !.peek_ahead = FALSE,
              !.next_buf = <<>>, !.pos = offset]

BSRet(b, r) == [st |-> b, r |-> r, exc |-> "none"]
BSRaise(b, e) == [st |-> b, r |-> PyNone, exc |-> e]

\* The body of the for loop of next_byte, k iterations left, s gathered so far
RECURSIVE NextByteLoop(_, _, _, _)
NextByteLoop(b, n, k, s) ==
    IF k = 0
    THEN BSRet(b, IF n = 1 THEN PyInt(s[1]) ELSE PyBytes(s))
    ELSE
      IF b.i = Len(b.buf)
      THEN IF b.peek_ahead
           THEN (CHOOSE val \in {IF Len(b1.buf) = 0
                    THEN BSRaise(b1, "IndexError")
                    ELSE NextByteLoop([b1 EXCEPT !.i = 1, !.pos = b.pos + 1],
                                      n, k - 1, Append(s, b1.buf[1]))
                 : b1 \in {[b EXCEPT !.peek_ahead = FALSE, !.buf = b.next_buf, !.next_buf = <<>>, !.i = 0]}} : TRUE)
           ELSE (CHOOSE val \in {(CHOOSE val \in {IF Len(x) = 0
                    THEN BSRet(b1, PyInt(EOFB))
                    ELSE NextByteLoop([b1 EXCEPT !.i = 1, !.pos = b.pos + 1],
                                      n, k - 1, Append(s, x[1]))
                                  : b1 \in {[b EXCEPT !.buf = x, !.fpos = b.fpos + Len(x)]}} : TRUE)
                 : x \in {FRead(b.fpos, b.blk_sz)}} : TRUE)
      ELSE IF b.i > Len(b.buf)
           THEN BSRaise(b, "IndexError")
           \* the iterations that buf serves, each one taking buf[i] and
           \* adding 1 to i and to pos, are taken together
           ELSE (CHOOSE val \in {NextByteLoop([b EXCEPT !.i = b.i + m, !.pos = b.pos + m],
                                 n, k - m, s \o Slice(b.buf, b.i, b.i + m))
                 : m \in {Min(k, Len(b.buf) - b.i)}} : TRUE)

\* ByteStream.next_byte
BSNextByte(b, n) == NextByteLoop(b, n, n, <<>>)

\* The body of the for loop of peek_byte: peek_buf, j are its locals
RECURSIVE PeekByteLoop(_, _, _, _, _, _)
PeekByteLoop(b, n, k, s, peek_buf, j) ==
    IF k = 0
    THEN BSRet(b, IF n = 1 THEN PyInt(s[1]) ELSE PyBytes(s))
    ELSE
      IF j = Len(peek_buf)
      THEN IF ~b.peek_ahead
           THEN (CHOOSE val \in {(CHOOSE val \in {IF Len(x) = 0
                    THEN BSRet(b1, PyInt(EOFB))
                    ELSE PeekByteLoop(b1, n, k - 1, Append(s, x[1]), x, 1)
                                  : b1 \in {[b EXCEPT !.peek_ahead = TRUE, !.next_buf = x, !.fpos = b.fpos + Len(x)]}} : TRUE)
                 : x \in {FRead(b.fpos, b.blk_sz)}} : TRUE)
           ELSE IF Len(b.next_buf) = 0
                THEN BSRaise(b, "IndexError")
                ELSE PeekByteLoop(b, n, k - 1, Append(s, b.next_buf[1]),
                                  b.next_buf, 1)
      ELSE IF j > Len(peek_buf)
           THEN BSRaise(b, "IndexError")
           ELSE PeekByteLoop(b, n, k - 1, Append(s, peek_buf[j + 1]),
                             peek_buf, j + 1)

\* ByteStream.peek_byte
BSPeekByte(b, n) == PeekByteLoop(b, n, n, <<>>, b.buf, b.i)

\* The while loop of next_stream: blocks are read until 'remaining' is served
RECURSIVE NextStreamLoop(_, _, _)
NextStreamLoop(b, s, remaining) ==
    (CHOOSE val \in {(CHOOSE val \in {IF Len(x) = 0
        THEN BSRet(b1, PyInt(EOFB))
        ELSE IF remaining <= Len(x)
             THEN BSRet([b1 EXCEPT !.buf = SliceFrom(x, remaining), !.i = 0,
                                   !.pos = b.pos + Len(s) + remaining],
                        PyBytes(s \o Slice(x, 0, remaining)))
             ELSE NextStreamLoop(b1, s \o x, remaining - Len(x))
                      : b1 \in {[b EXCEPT !.fpos = b.fpos + Len(x)]}} : TRUE)
     : x \in {FRead(b.fpos, b.blk_sz)}} : TRUE)

\* ByteStream.next_stream
BSNextStream(b, length) ==
    (CHOOSE val \in {(CHOOSE val \in {IF length <= available
        THEN BSRet([b0 EXCEPT !.i = b0.i + length, !.pos = b0.pos + length],
                   PyBytes(Slice(b0.buf, b0.i, b0.i + length)))
        ELSE NextStreamLoop(b0, SliceFrom(b0.buf, b0.i), length - available)
                      : available \in {Len(b0.buf) - b0.i}} : TRUE)
     : b0 \in {[b EXCEPT !.peek_ahead = FALSE, !.next_buf = <<>>]}} : TRUE)

\* ByteStream.tell
BSTell(b) == b.pos

\* ByteStream.seek
BSSeek(b, offset) == BSReset(b, offset)

----------------------------------------------------------------------------
(* Bytes and Python's conversions of byte strings *)

NUL == 0
HT == 9
LF == 10
FF == 12
CR == 13
SP == 32
HASH == 35
PERCENT == 37
LPAREN == 40
RPAREN == 41
PLUS == 43
MINUS == 45
DOT == 46
SLASH == 47
LT == 60
GT == 62
LBRACKET == 91
BACKSLASH == 92
RBRACKET == 93
USCORE == 95
LBRACE == 123
RBRACE == 125

\* TokenStream.wspace, TokenStream.delims, TokenStream.hex_digit
wspace == {NUL, HT, FF, SP}
delims == {LPAREN, RPAREN, LT, GT, LBRACKET, RBRACKET, LBRACE, RBRACE, SLASH, PERCENT}
Digits == 48..57
hex_digit == Digits \cup (97..102) \cup (65..70)

\* The bytes that bytes.strip(), int() and float() treat as white space
PyWhite == {HT, LF, 11, FF, CR, SP}

Lower(c) == IF c \in 65..90 THEN c + 32 ELSE c

\* The value of one hexadecimal (or decimal, or octal) digit
DigitVal(c) == IF c \in Digits THEN c - 48 ELSE Lower(c) - 87

RECURSIVE LStrip(_)
LStrip(s) == IF Len(s) > 0 /\ s[1] \in PyWhite THEN LStrip(Tail(s)) ELSE s

RECURSIVE RStrip(_)
RStrip(s) ==
    IF Len(s) > 0 /\ s[Len(s)] \in PyWhite THEN RStrip(SubSeq(s, 1, Len(s) - 1)) ELSE s

Strip(s) == RStrip(LStrip(s))

\* A run of digits of the given base, single underscores allowed between
\* digits: [ok, v, rest], the longest such prefix of s
RECURSIVE DigitRun(_, _, _, _)
DigitRun(s, radix, v, some) ==
    IF Len(s) > 0 /\ s[1] \in hex_digit /\ DigitVal(s[1]) < radix
    THEN DigitRun(Tail(s), radix, v * radix + DigitVal(s[1]), TRUE)
    ELSE IF some /\ Len(s) > 1 /\ s[1] = USCORE /\ s[2] \in hex_digit
                 /\ DigitVal(s[2]) < radix
         THEN DigitRun(Tail(s), radix, v, TRUE)
         ELSE [ok |-> some, v |-> v, rest |-> s]

HasSign(s) == Len(s) > 0 /\ s[1] \in {PLUS, MINUS}
Unsigned(s) == IF HasSign(s) THEN Tail(s) ELSE s
Signed(s, v) == IF HasSign(s) /\ s[1] = MINUS THEN 0 - v ELSE v

\* Python's int(s) and int(s, 8) of a bytes object: [ok, v]; ok is FALSE
\* where Python raises ValueError
PyIntOf(s, radix) ==
    (CHOOSE val \in {(CHOOSE val \in {(CHOOSE val \in {(CHOOSE val \in {
        [ok |-> d.ok /\ Len(d.rest) = 0, v |-> Signed(t, d.v)]
          : d \in {DigitRun(p, radix, 0, FALSE)}} : TRUE)
          : p \in {IF radix = 8 /\ Len(u) > 1 /\ u[1] = 48 /\ Lower(u[2]) = 111
                   THEN IF Len(u) > 2 /\ u[3] = USCORE THEN SubSeq(u, 4, Len(u))
                        ELSE SubSeq(u, 3, Len(u))
                   ELSE u}} : TRUE)
          : u \in {Unsigned(t)}} : TRUE)
          : t \in {Strip(s)}} : TRUE)

\* The words float() accepts besides decimal numbers
FloatWords ==
    { <<105, 110, 102>>, <<110, 97, 110>>,
      <<105, 110, 102, 105, 110, 105, 116, 121>> }

\* Python's float(s) accepts s
PyFloatOk(s) ==
    (CHOOSE val \in {(CHOOSE val \in {(CHOOSE val \in {(CHOOSE val \in {(CHOOSE val \in {(CHOOSE val \in {
        \/ [k \in 1..Len(t) |-> Lower(t[k])] \in FloatWords
        \/ /\ ip.ok \/ (Len(ip.rest) > 0 /\ ip.rest[1] = DOT /\ fp.ok)
           /\ IF hasExp THEN ex.ok /\ Len(ex.rest) = 0 ELSE Len(fp.rest) = 0
          : ex \in {IF hasExp THEN DigitRun(Unsigned(Tail(fp.rest)), 10, 0, FALSE) ELSE fp}} : TRUE)
          : hasExp \in {Len(fp.rest) > 0 /\ Lower(fp.rest[1]) = 101}} : TRUE)
          : fp \in {DigitRun(afterDot, 10, 0, FALSE)}} : TRUE)
          : afterDot \in {IF Len(ip.rest) > 0 /\ ip.rest[1] = DOT THEN Tail(ip.rest) ELSE ip.rest}} : TRUE)
          : ip \in {DigitRun(t, 10, 0, FALSE)}} : TRUE)
          : t \in {Unsigned(Strip(s))}} : TRUE)

\* bytes.fromhex of an even number of hexadecimal digits
RECURSIVE FromHex(_)
FromHex(s) ==
    IF Len(s) < 2 THEN <<>>
    ELSE <<16 * DigitVal(s[1]) + DigitVal(s[2])>> \o FromHex(SubSeq(s, 3, Len(s)))

\* The ASCII codes of the keywords
KwTrue == <<116, 114, 117, 101>>
KwFalse == <<102, 97, 108, 115, 101>>
KwNull == <<110, 117, 108, 108>>
KwObj == <<111, 98, 106>>
KwEndobj == <<101, 110, 100, 111, 98, 106>>
KwStream == <<115, 116, 114, 101, 97, 109>>
KwEndstream == <<101, 110, 100, 115, 116, 114, 101, 97, 109>>
KwR == <<82>>
KwXref == <<120, 114, 101, 102>>
KwTrailer == <<116, 114, 97, 105, 108, 101, 114>>
KwStartxref == <<115, 116, 97, 114, 116, 120, 114, 101, 102>>

----------------------------------------------------------------------------
(* L2 : tokens *)

\* Token(type, data): dk tells what data is ("none" for None, "int", "real"
\* (the text of the number), "bytes", "tuple"), data is always a sequence.
\* An EToken member returned in place of a Token has dk = "enum".
Token(type) == [type |-> type, dk |-> "none", data |-> <<>>]
TokenD(type, dk, data) == [type |-> type, dk |-> dk, data |-> data]
BareEToken(type) == [type |-> type, dk |-> "enum", data |-> <<>>]

----------------------------------------------------------------------------
(* L2 : TokenStream *)

\* io.DEFAULT_BUFFER_SIZE, the block size of the ByteStream of a TokenStream
DefaultBlk == 8192

TKRet(t, r) == [st |-> t, r |-> r, exc |-> "none"]
TKRaise(t, e) == [st |-> t, r |-> Token("NONE"), exc |-> e]

\* self.bf.next_byte(): [st, c, exc]
Read1(t) ==
    (CHOOSE val \in {[st |-> [t EXCEPT !.bf = res.st],
         c |-> IF res.exc = "none" THEN res.r.v ELSE EOFB,
         exc |-> res.exc]
     : res \in {BSNextByte(t.bf, 1)}} : TRUE)

\* self.bf.next_byte(n), n > 1: [st, r, exc], r is -1 or n bytes
ReadN(t, n) ==
    (CHOOSE val \in {[st |-> [t EXCEPT !.bf = res.st], r |-> res.r, exc |-> res.exc]
     : res \in {BSNextByte(t.bf, n)}} : TRUE)

\* self.bf.seek(pos)
BfSeek(t, pos) == [t EXCEPT !.bf = BSSeek(t.bf, pos)]

\* self.cc = self.bf.next_byte(); return tok
SetCCAndReturn(t, tok) ==
    (CHOOSE val \in {IF a.exc # "none" THEN TKRaise(a.st, a.exc)
        ELSE TKRet([a.st EXCEPT !.cc = a.c], tok)
     : a \in {Read1(t)}} : TRUE)

\* TokenStream.__init__
TKInit ==
    (CHOOSE val \in {(CHOOSE val \in {[a.st EXCEPT !.cc = a.c]
                      : a \in {Read1(t0)}} : TRUE)
     : t0 \in {[bf |-> BSInit(DefaultBlk), cc |-> EOFB, parens |-> 0, peeked |-> <<>>]}} : TRUE)

\* TokenStream.seek
TKSeek(t, offset) ==
    (CHOOSE val \in {[a.st EXCEPT !.cc = a.c, !.parens = 0, !.peeked = <<>>]
     : a \in {Read1(BfSeek(t, offset))}} : TRUE)

\* TokenStream.tell: the position of the current look-ahead byte
TKTell(t) == IF t.cc = EOFB THEN BSTell(t.bf) ELSE BSTell(t.bf) - 1

\* The byte an escape letter stands for in a literal string
EscapeByte(c) ==
    CASE c = 110 -> LF
      [] c = 114 -> CR
      [] c = 116 -> HT
      [] c = 98 -> 8
      [] c = 102 -> FF
      [] OTHER -> c

SimpleEscapes == {110, 114, 116, 98, 102, LPAREN, RPAREN, BACKSLASH}

\* TokenStream.get_literal_string: the while loop, ls gathered so far
RECURSIVE LiteralLoop(_, _)
LiteralLoop(t, ls) ==
    (CHOOSE val \in {(CHOOSE val \in {IF a.exc # "none" THEN TKRaise(t1, a.exc)
        ELSE IF a.c = RPAREN
        THEN (CHOOSE val \in {IF t2.parens = 0 THEN TKRet(t2, ls)
                 ELSE LiteralLoop(t2, Append(ls, a.c))
              : t2 \in {[t1 EXCEPT !.parens = t1.parens - 1]}} : TRUE)
        ELSE IF a.c = LPAREN
        THEN LiteralLoop([t1 EXCEPT !.parens = t1.parens + 1], Append(ls, a.c))
        ELSE IF a.c = BACKSLASH
        THEN (CHOOSE val \in {(CHOOSE val \in {IF b.exc # "none" THEN TKRaise(b.st, b.exc)
                 ELSE IF b.c \in SimpleEscapes
                 THEN (CHOOSE val \in {IF c.exc # "none" THEN TKRaise(c.st, c.exc)
                          ELSE LiteralLoop(c.st, Append(ls, EscapeByte(b.c)))
                       : c \in {Read1(b.st)}} : TRUE)
                 ELSE (CHOOSE val \in {IF o.exc # "none" THEN TKRaise(o.st, o.exc)
                          ELSE IF o.r.k = "int" THEN TKRaise(o.st, "TypeError")
                          ELSE (CHOOSE val \in {IF n.ok /\ n.v \in 0..255
                                   THEN (CHOOSE val \in {IF d.exc # "none" THEN TKRaise(d.st, d.exc)
                                            ELSE LiteralLoop(d.st, Append(ls, n.v))
                                         : d \in {ReadN(o.st, 3)}} : TRUE)
                                   ELSE TKRaise(o.st, "NameError")
                                : n \in {PyIntOf(o.r.v, 8)}} : TRUE)
                       : o \in {ReadN(BfSeek(b.st, pos), 3)}} : TRUE)
                               : b \in {Read1(t1)}} : TRUE)
              : pos \in {BSTell(t1.bf)}} : TRUE)
        ELSE IF a.c = EOFB THEN TKRaise(t1, "ValueError")
        ELSE LiteralLoop(t1, Append(ls, a.c))
                      : t1 \in {a.st}} : TRUE)
     : a \in {Read1(t)}} : TRUE)

\* TokenStream.get_literal_string
get_literal_string(t) == LiteralLoop(t, <<>>)

\* get_hex_string completing an odd number of digits by a leading '0'
PadHex_leading(hs) == IF Len(hs) % 2 = 1 THEN <<48>> \o hs ELSE hs

\* get_hex_string: an odd number of digits is completed by a final '0'
PadHex(hs) == IF Len(hs) % 2 = 1 THEN Append(hs, 48) ELSE hs

\* TokenStream.get_hex_string: the while loop; r is the payload, or None
RECURSIVE HexLoop(_, _)
HexLoop(t, hs) ==
    (CHOOSE val \in {IF a.exc # "none" THEN TKRaise(a.st, a.exc)
        ELSE IF a.c = GT
        THEN TKRet(a.st, [dk |-> "bytes",
                          data |-> FromHex(PadHex(hs))])
        ELSE IF a.c = EOFB THEN TKRaise(a.st, "ValueError")
        ELSE IF a.c \in hex_digit THEN HexLoop(a.st, Append(hs, a.c))
        ELSE TKRet(a.st, [dk |-> "none", data |-> <<>>])
     : a \in {Read1(t)}} : TRUE)

\* TokenStream.get_hex_string
get_hex_string(t) == HexLoop(t, <<>>)

\* TokenStream.get_name: the while loop; r is the name, or None
RECURSIVE NameLoop(_, _)
NameLoop(t, name) ==
    (CHOOSE val \in {IF a.exc # "none" THEN TKRaise(a.st, a.exc)
        ELSE IF a.c = EOFB THEN TKRaise(a.st, "ValueError")
        ELSE IF a.c \in delims \cup wspace \cup {CR, LF}
        THEN TKRet([a.st EXCEPT !.cc = a.c], [dk |-> "bytes", data |-> name])
        ELSE IF a.c = HASH
        THEN (CHOOSE val \in {IF h.exc # "none" THEN TKRaise(h.st, h.exc)
                 ELSE IF h.r.k = "int" THEN TKRaise(h.st, "TypeError")
                 ELSE IF h.r.v[1] \in hex_digit /\ h.r.v[2] \in hex_digit
                      THEN NameLoop(h.st, name \o FromHex(h.r.v))
                      ELSE NameLoop(h.st, name)
              : h \in {ReadN(a.st, 2)}} : TRUE)
        ELSE IF a.c < 33 \/ a.c > 126
        THEN TKRet(a.st, [dk |-> "none", data |-> <<>>])
        ELSE NameLoop(a.st, Append(name, a.c))
     : a \in {Read1(t)}} : TRUE)

\* TokenStream.get_name
get_name(t) == NameLoop(t, <<>>)

\* The token get_regular_run makes of the run s; type "ERROR" when s is
\* neither a keyword nor a number
RunToken(s) ==
    CASE s = KwTrue -> Token("TRUE")
      [] s = KwFalse -> Token("FALSE")
      [] s = KwNull -> Token("NULL")
      [] s = KwObj -> Token("OBJECT_BEGIN")
      [] s = KwEndobj -> Token("OBJECT_END")
      [] s = KwStream -> Token("STREAM_BEGIN")
      [] s = KwEndstream -> Token("STREAM_END")
      [] s = KwR -> Token("OBJ_REF")
      [] s = KwXref -> Token("XREF_SECTION")
      [] s = KwTrailer -> Token("TRAILER")
      [] s = KwStartxref -> Token("STARTXREF")
      [] OTHER ->
           IF PyIntOf(s, 10).ok THEN TokenD("INTEGER", "int", <<PyIntOf(s, 10).v>>)
           ELSE IF PyFloatOk(s) THEN TokenD("REAL", "real", s)
           ELSE TokenD("ERROR", "bytes", <<>>)

\* TokenStream.get_regular_run: the while loop, cc is its local
RECURSIVE RunLoop(_, _, _)
RunLoop(t, cc, s) ==
    IF cc = EOFB THEN TKRaise(t, "ValueError")
    ELSE IF cc \notin delims \cup wspace \cup {CR, LF}
    THEN (CHOOSE val \in {IF a.exc # "none" THEN TKRaise(a.st, a.exc)
             ELSE RunLoop(a.st, a.c, Append(s, cc))
          : a \in {Read1(t)}} : TRUE)
    ELSE TKRet([t EXCEPT !.cc = cc], RunToken(s))

\* TokenStream.get_regular_run
get_regular_run(t) == RunLoop(t, t.cc, <<>>)

\* _next_token: the loop that skips white space; r is the first other byte,
\* or -1 at the end of the input
RECURSIVE SkipWhite(_, _)
SkipWhite(t, cc) ==
    IF cc \in wspace
    THEN (CHOOSE val \in {IF a.exc # "none" THEN [st |-> a.st, c |-> EOFB, exc |-> a.exc]
             ELSE IF a.c = EOFB THEN [st |-> a.st, c |-> EOFB, exc |-> "none"]
             ELSE SkipWhite(a.st, a.c)
          : a \in {Read1(t)}} : TRUE)
    ELSE [st |-> t, c |-> cc, exc |-> "none"]

\* re.match(rb'PDF-(\d).(\d)', s) for the 7 bytes s
IsVersion(s) ==
    /\ SubSeq(s, 1, 4) = <<80, 68, 70, MINUS>>
    /\ s[5] \in Digits
    /\ s[6] # LF
    /\ s[7] \in Digits

\* _next_token: the loop that skips a comment up to its end of line
RECURSIVE CommentLoop(_)
CommentLoop(t) ==
    (CHOOSE val \in {IF a.exc # "none" THEN TKRaise(a.st, a.exc)
        ELSE IF a.c = CR
        THEN (CHOOSE val \in {(CHOOSE val \in {IF b.exc # "none" THEN TKRaise(b.st, b.exc)
                 ELSE IF b.c = LF THEN SetCCAndReturn(b.st, Token("CRLF"))
                 ELSE SetCCAndReturn(BfSeek(b.st, pos), Token("CR"))
                               : b \in {Read1(a.st)}} : TRUE)
              : pos \in {BSTell(a.st.bf)}} : TRUE)
        ELSE IF a.c = LF THEN SetCCAndReturn(a.st, Token("LF"))
        ELSE IF a.c = EOFB /\ a.st = t THEN TKRaise(t, "hang")
        ELSE CommentLoop(a.st)
     : a \in {Read1(t)}} : TRUE)

\* _next_token: the branch of '%'
PercentBranch(t) ==
    (CHOOSE val \in {(CHOOSE val \in {IF v.exc # "none" THEN TKRaise(v.st, v.exc)
        ELSE IF v.r.k = "int" THEN TKRaise(v.st, "TypeError")
        ELSE IF IsVersion(v.r.v)
        THEN SetCCAndReturn(v.st, TokenD("VERSION_MARKER", "tuple",
                                         <<v.r.v[5] - 48, v.r.v[7] - 48>>))
        ELSE (CHOOSE val \in {IF e.exc # "none" THEN TKRaise(e.st, e.exc)
                 ELSE IF e.r.k = "bytes" /\ e.r.v = <<PERCENT, 69, 79, 70>>
                 THEN SetCCAndReturn(e.st, Token("EOF_MARKER"))
                 ELSE CommentLoop(BfSeek(e.st, pos))
              : e \in {ReadN(BfSeek(v.st, pos), 4)}} : TRUE)
                      : v \in {ReadN(t, 7)}} : TRUE)
     : pos \in {BSTell(t.bf)}} : TRUE)

\* TokenStream._next_token
next_token_(t) ==
    IF t.cc = EOFB THEN TKRet(t, Token("EOF"))
    ELSE
    (CHOOSE val \in {(CHOOSE val \in {(CHOOSE val \in {IF w.exc # "none" THEN TKRaise(t1, w.exc)
        ELSE IF cc = EOFB THEN TKRet(t1, Token("EOF"))
        ELSE IF cc = LPAREN
        THEN (CHOOSE val \in {IF ls.exc # "none" THEN ls
                 ELSE SetCCAndReturn(ls.st, TokenD("LITERAL_STRING", "bytes", ls.r))
              : ls \in {get_literal_string([t1 EXCEPT !.parens = 1])}} : TRUE)
        ELSE IF cc = LT
        THEN (CHOOSE val \in {(CHOOSE val \in {IF b.exc # "none" THEN TKRaise(b.st, b.exc)
                 ELSE IF b.c = EOFB THEN TKRet(b.st, BareEToken("EOF"))
                 ELSE IF b.c \in hex_digit
                 THEN (CHOOSE val \in {IF hs.exc # "none" THEN hs
                          ELSE SetCCAndReturn(hs.st,
                                   TokenD("HEX_STRING", hs.r.dk, hs.r.data))
                       : hs \in {get_hex_string(BfSeek(b.st, pos))}} : TRUE)
                 ELSE IF b.c = LT THEN SetCCAndReturn(b.st, Token("DICT_BEGIN"))
                 ELSE SetCCAndReturn(b.st, TokenD("ERROR", "bytes", <<>>))
                               : b \in {Read1(t1)}} : TRUE)
              : pos \in {BSTell(t1.bf)}} : TRUE)
        ELSE IF cc = GT
        THEN (CHOOSE val \in {IF b.exc # "none" THEN TKRaise(b.st, b.exc)
                 ELSE IF b.c = EOFB THEN TKRet(b.st, BareEToken("EOF"))
                 ELSE IF b.c = GT THEN SetCCAndReturn(b.st, Token("DICT_END"))
                 ELSE SetCCAndReturn(b.st, TokenD("ERROR", "bytes", <<>>))
              : b \in {Read1(t1)}} : TRUE)
        ELSE IF cc = SLASH
        THEN (CHOOSE val \in {IF nm.exc # "none" THEN nm
                 ELSE TKRet(nm.st, TokenD("NAME", nm.r.dk, nm.r.data))
              : nm \in {get_name(t1)}} : TRUE)
        ELSE IF cc = PERCENT THEN PercentBranch(t1)
        ELSE IF cc = LBRACKET THEN SetCCAndReturn(t1, Token("ARRAY_BEGIN"))
        ELSE IF cc = RBRACKET THEN SetCCAndReturn(t1, Token("ARRAY_END"))
        ELSE IF cc = CR
        THEN (CHOOSE val \in {(CHOOSE val \in {IF b.exc # "none" THEN TKRaise(b.st, b.exc)
                 ELSE IF b.c = LF THEN SetCCAndReturn(b.st, Token("CRLF"))
                 ELSE SetCCAndReturn(BfSeek(b.st, pos), Token("CR"))
                               : b \in {Read1(t1)}} : TRUE)
              : pos \in {BSTell(t1.bf)}} : TRUE)
        ELSE IF cc = LF THEN SetCCAndReturn(t1, Token("LF"))
        ELSE IF cc \in {RPAREN, GT, RBRACE}
        THEN SetCCAndReturn(t1, TokenD("ERROR", "bytes", <<>>))
        ELSE get_regular_run([t1 EXCEPT !.cc = cc])
                                       : cc \in {w.c}} : TRUE)
                      : t1 \in {w.st}} : TRUE)
     : w \in {SkipWhite(t, t.cc)}} : TRUE)

\* next_token taking the newest token of the peek queue instead of the oldest
next_token_newest(t) ==
    IF Len(t.peeked) > 0
    THEN TKRet([t EXCEPT !.peeked = SubSeq(t.peeked, 1, Len(t.peeked) - 1)],
               t.peeked[Len(t.peeked)])
    ELSE next_token_(t)

\* TokenStream.next_token
next_token(t) ==
    IF Len(t.peeked) > 0
    THEN TKRet([t EXCEPT !.peeked = Tail(t.peeked)], Head(t.peeked))
    ELSE next_token_(t)

\* peek_token forgetting to queue the token it scanned
peek_token_unqueued(t) == next_token_(t)

\* TokenStream.peek_token
peek_token(t) ==
    (CHOOSE val \in {IF res.exc # "none" THEN res
        ELSE TKRet([res.st EXCEPT !.peeked = Append(res.st.peeked, res.r)], res.r)
     : res \in {next_token_(t)}} : TRUE)

\* The value of the decimal digits s
RECURSIVE Decimal(_, _)
Decimal(s, v) == IF Len(s) = 0 THEN v ELSE Decimal(Tail(s), 10 * v + (s[1] - 48))

AllDigits(s) == \A k \in 1..Len(s) : s[k] \in Digits

\* re.match(b'(\d{10}) (\d{5}) ([nf])(\r\n| \r| \n)$', s) for the 20 bytes s
IsEntry(s) ==
    /\ AllDigits(SubSeq(s, 1, 10))
    /\ s[11] = SP
    /\ AllDigits(SubSeq(s, 12, 16))
    /\ s[17] = SP
    /\ s[18] \in {110, 102}
    /\ SubSeq(s, 19, 20) \in {<<CR, LF>>, <<SP, CR>>, <<SP, LF>>}

\* TokenStream.get_subsection_entry
get_subsection_entry(t) ==
    IF t.cc = EOFB THEN TKRaise(t, "ValueError")
    ELSE
    (CHOOSE val \in {IF a.exc # "none" THEN TKRaise(a.st, a.exc)
        ELSE IF a.r.k = "int" THEN TKRaise(a.st, "TypeError")
        ELSE (CHOOSE val \in {IF ~IsEntry(s)
                 THEN (CHOOSE val \in {IF b.exc # "none" THEN TKRaise(b.st, b.exc)
                          ELSE TKRet(b.st, Token("ERROR"))
                       : b \in {Read1(a.st)}} : TRUE)
                 ELSE SetCCAndReturn(a.st,
                          TokenD("SUBSECTION_ENTRY", "tuple",
                                 <<Decimal(SubSeq(s, 1, 10), 0),
                                   Decimal(SubSeq(s, 12, 16), 0),
                                   IF s[18] = 110 THEN 1 ELSE 0>>))
              : s \in {<<t.cc>> \o a.r.v}} : TRUE)
     : a \in {ReadN(t, 19)}} : TRUE)

\* get_subsection_header: a loop gathering bytes up to a byte of 'stop';
\* [st, s, c, exc], c is the byte that ended the run, -1 at the end of input
RECURSIVE HeaderRun(_, _, _, _)
HeaderRun(t, cc, s, stop) ==
    IF cc \in stop THEN [st |-> t, s |-> s, c |-> cc, exc |-> "none"]
    ELSE (CHOOSE val \in {IF a.exc # "none" THEN [st |-> a.st, s |-> s, c |-> EOFB, exc |-> a.exc]
             ELSE IF a.c = EOFB THEN [st |-> a.st, s |-> s, c |-> EOFB, exc |-> "none"]
             ELSE HeaderRun(a.st, a.c, Append(s, cc), stop)
          : a \in {Read1(t)}} : TRUE)

\* a rollback that restores the look-ahead byte but leaves the byte stream
\* where the scan stopped
Rollback_no_seek(t, save_cc, pos) == TKRet([t EXCEPT !.cc = save_cc], Token("UNEXPECTED"))

\* get_subsection_header: restore the state saved on entry
Rollback(t, save_cc, pos) == TKRet([BfSeek(t, pos) EXCEPT !.cc = save_cc], Token("UNEXPECTED"))

\* TokenStream.get_subsection_header
get_subsection_header(t) ==
    IF t.cc = EOFB THEN TKRaise(t, "ValueError")
    ELSE
    (CHOOSE val \in {(CHOOSE val \in {(CHOOSE val \in {IF r1.exc # "none" THEN TKRaise(r1.st, r1.exc)
        ELSE IF r1.c = EOFB THEN TKRet(r1.st, Token("EOF"))
        ELSE IF ~PyIntOf(r1.s, 10).ok THEN Rollback(r1.st, save_cc, pos)
        ELSE
        (CHOOSE val \in {IF a.exc # "none" THEN TKRaise(a.st, a.exc)
            ELSE IF a.c = EOFB THEN TKRet(a.st, Token("EOF"))
            ELSE
            (CHOOSE val \in {IF r2.exc # "none" THEN TKRaise(r2.st, r2.exc)
                ELSE IF r2.c = EOFB THEN TKRet(r2.st, Token("EOF"))
                ELSE IF ~PyIntOf(r2.s, 10).ok THEN Rollback(r2.st, save_cc, pos)
                ELSE
                (CHOOSE val \in {(CHOOSE val \in {IF r2.c = CR
                    THEN (CHOOSE val \in {(CHOOSE val \in {IF b.exc # "none" THEN TKRaise(b.st, b.exc)
                             ELSE IF b.c = EOFB THEN TKRet(b.st, Token("EOF"))
                             ELSE IF b.c # LF
                                  THEN SetCCAndReturn(BfSeek(b.st, pos2), hdr)
                                  ELSE SetCCAndReturn(b.st, hdr)
                                           : b \in {Read1(t2)}} : TRUE)
                          : pos2 \in {BSTell(t2.bf)}} : TRUE)
                    ELSE IF r2.c # LF THEN Rollback(t2, save_cc, pos)
                    ELSE SetCCAndReturn(t2, hdr)
                                  : hdr \in {TokenD("SUBSECTION_HDR", "tuple", <<PyIntOf(r1.s, 10).v, PyIntOf(r2.s, 10).v>>)}} : TRUE)
                 : t2 \in {[r2.st EXCEPT !.cc = r2.c]}} : TRUE)
             : r2 \in {HeaderRun(a.st, a.c, <<>>, {CR, LF})}} : TRUE)
         : a \in {Read1(r1.st)}} : TRUE)
                                       : r1 \in {HeaderRun(t, t.cc, <<>>, wspace)}} : TRUE)
                      : pos \in {BSTell(t.bf)}} : TRUE)
     : save_cc \in {t.cc}} : TRUE)

\* TokenStream.next_stream: the look-ahead byte is the first byte of the
\* stream, the other length - 1 come from the byte stream; the peek queue
\* is dropped and the look-ahead byte read again
TKNextStream(t, length) ==
    (CHOOSE val \in {IF length = 0 THEN TKRet(t0, TokenD("STREAM_DATA", "bytes", <<>>))
        ELSE IF t.cc = EOFB THEN TKRet(t0, Token("EOF"))
        ELSE (CHOOSE val \in {(CHOOSE val \in {IF res.r.k = "int" THEN TKRet(t1, Token("EOF"))
                 ELSE SetCCAndReturn(t1, TokenD("STREAM_DATA", "bytes", <<t.cc>> \o res.r.v))
                               : t1 \in {[t0 EXCEPT !.bf = res.st]}} : TRUE)
              : res \in {BSNextStream(t.bf, length - 1)}} : TRUE)
     : t0 \in {[t EXCEPT !.peeked = <<>>]}} : TRUE)

----------------------------------------------------------------------------
(* L3 : PdfObject, XrefSubSection, XrefSection *)

\* PdfObject(type, data). k tells what data is: "none" (None), "bool", "int",
\* "real", "bytes" and "tuple" keep it in v; "array" keeps the elements in
\* kids; "dict" keeps the keys in keys and the values in kids, in insertion
\* order; "def" and "ref" keep objn, gen in v and the inner object in kids;
\* "xref" keeps the sub-sections in xref; "trailer" and "couple" use kids.
PdfObject(type) ==
    [type |-> type, k |-> "none", v |-> <<>>, keys |-> <<>>, kids |-> <<>>, xref |-> <<>>]
PdfObjectV(type, k, v) == [PdfObject(type) EXCEPT !.k = k, !.v = v]
PdfObjectK(type, k, kids) == [PdfObject(type) EXCEPT !.k = k, !.kids = kids]

\* None returned where a PdfObject is expected
NoneObj == PdfObject("None")

\* XrefSubSection.__init__
XrefSubSection(first_objn, entry_cnt) ==
    [first_objn |-> first_objn, entry_cnt |-> entry_cnt, entries |-> <<>>]

\* XrefSubSection.has_object
has_object(subs, objn) ==
    subs.first_objn <= objn /\ objn < subs.first_objn + subs.entry_cnt

\* XrefSubSection.get_object: [found, entry]; an entry is <<x, gen, in_use>>
\* and self.entries[k] raises IndexError when the entry was never read
SubsGetObject(subs, objn) ==
    IF ~has_object(subs, objn) THEN [found |-> FALSE, entry |-> <<>>, exc |-> "none"]
    ELSE IF objn - subs.first_objn + 1 > Len(subs.entries)
    THEN [found |-> FALSE, entry |-> <<>>, exc |-> "IndexError"]
    ELSE [found |-> TRUE, entry |-> subs.entries[objn - subs.first_objn + 1], exc |-> "none"]

\* a lookup in which a later sub-section overrides an earlier one
RECURSIVE SecGetObject_last(_, _)
SecGetObject_last(sub_sections, objn) ==
    IF Len(sub_sections) = 0 THEN [found |-> FALSE, entry |-> <<>>, exc |-> "none"]
    ELSE (CHOOSE val \in {IF o.exc # "none" \/ o.found THEN o
             ELSE SecGetObject_last(SubSeq(sub_sections, 1, Len(sub_sections) - 1), objn)
          : o \in {SubsGetObject(sub_sections[Len(sub_sections)], objn)}} : TRUE)

\* XrefSection.get_object: the entry of the first sub-section that has objn
RECURSIVE SecGetObject(_, _)
SecGetObject(sub_sections, objn) ==
    IF Len(sub_sections) = 0 THEN [found |-> FALSE, entry |-> <<>>, exc |-> "none"]
    ELSE (CHOOSE val \in {IF o.exc # "none" \/ o.found THEN o
             ELSE SecGetObject(Tail(sub_sections), objn)
          : o \in {SubsGetObject(Head(sub_sections), objn)}} : TRUE)

\* bytes.decode('unicode_escape') of a dictionary key: [ok, v], v the code
\* points; ok is FALSE where Python raises UnicodeDecodeError. A \N{name}
\* escape is taken as an error whatever the name.
Octal == 48..55

RECURSIVE HexValue(_, _)
HexValue(s, v) == IF Len(s) = 0 THEN v ELSE HexValue(Tail(s), 16 * v + DigitVal(s[1]))

RECURSIVE OctalRun(_, _, _)
OctalRun(s, v, n) ==
    IF n < 3 /\ Len(s) > 0 /\ s[1] \in Octal
    THEN OctalRun(Tail(s), 8 * v + (s[1] - 48), n + 1)
    ELSE [v |-> v, rest |-> s]

RECURSIVE UnicodeEscape(_, _)
UnicodeEscape(s, out) ==
    IF Len(s) = 0 THEN [ok |-> TRUE, v |-> out]
    ELSE IF s[1] # BACKSLASH THEN UnicodeEscape(Tail(s), Append(out, s[1]))
    ELSE IF Len(s) = 1 THEN [ok |-> FALSE, v |-> <<>>]
    ELSE LET c == s[2]
             rest == SubSeq(s, 3, Len(s))
             HexEsc(n) ==
                 IF Len(rest) >= n /\ \A j \in 1..n : rest[j] \in hex_digit
                 THEN UnicodeEscape(SubSeq(rest, n + 1, Len(rest)),
                                    Append(out, HexValue(SubSeq(rest, 1, n), 0)))
                 ELSE [ok |-> FALSE, v |-> <<>>]
         IN  CASE c = LF -> UnicodeEscape(rest, out)
               [] c \in {BACKSLASH, 39, 34} -> UnicodeEscape(rest, Append(out, c))
               [] c = 97 -> UnicodeEscape(rest, Append(out, 7))
               [] c = 98 -> UnicodeEscape(rest, Append(out, 8))
               [] c = 102 -> UnicodeEscape(rest, Append(out, FF))
               [] c = 110 -> UnicodeEscape(rest, Append(out, LF))
               [] c = 114 -> UnicodeEscape(rest, Append(out, CR))
               [] c = 116 -> UnicodeEscape(rest, Append(out, HT))
               [] c = 118 -> UnicodeEscape(rest, Append(out, 11))
               [] c \in Octal ->
                    LET o == OctalRun(Tail(s), 0, 0)
                    IN  UnicodeEscape(o.rest, Append(out, o.v))
               [] c = 120 -> HexEsc(2)
               [] c = 117 -> HexEsc(4)
               [] c = 85 ->
                    IF /\ Len(rest) >= 8
                       /\ \A j \in 1..8 : rest[j] \in hex_digit
                       /\ rest[1] = 48 /\ rest[2] = 48
                       /\ HexValue(SubSeq(rest, 3, 8), 0) <= 1114111
                    THEN UnicodeEscape(SubSeq(rest, 9, Len(rest)),
                                       Append(out, HexValue(SubSeq(rest, 3, 8), 0)))
                    ELSE [ok |-> FALSE, v |-> <<>>]
               [] c = 78 -> [ok |-> FALSE, v |-> <<>>]
               [] OTHER -> UnicodeEscape(rest, out \o <<BACKSLASH, c>>)

\* d[key] = obj on the dictionary kept as keys and values in insertion order
DictSet(keys, kids, key, obj) ==
    IF \E j \in 1..Len(keys) : keys[j] = key
    THEN [keys |-> keys,
          kids |-> [j \in 1..Len(kids) |-> IF keys[j] = key THEN obj ELSE kids[j]]]
    ELSE [keys |-> Append(keys, key), kids |-> Append(kids, obj)]

\* d[key]: [found, obj]
DictGet(obj, key) ==
    IF \E j \in 1..Len(obj.keys) : obj.keys[j] = key
    THEN [found |-> TRUE, obj |-> obj.kids[CHOOSE j \in 1..Len(obj.keys) : obj.keys[j] = key]]
    ELSE [found |-> FALSE, obj |-> NoneObj]

\* 'Length'
KeyLength == <<76, 101, 110, 103, 116, 104>>
----------------------------------------------------------------------------
(* L3 : ObjectStream *)

\* The state of an ObjectStream: tk, tok, xref_sec (set tells whether the
\* attribute exists: __init__ does not create it). Three more fields record
\* the current call: scans counts the tokens the TokenStream has handed over
\* during the call, tokAt is the count at which the token now in tok was
\* handed over (0: before the call), hdrAt is tell() before the last call of
\* get_subsection_header.

ObRet(o, obj) == [st |-> o, r |-> obj, exc |-> "none"]
ObRaise(o, e) == [st |-> o, r |-> NoneObj, exc |-> e]

\* tok.type raises AttributeError when tok is an EToken member, not a Token
HasType(tok) == tok.dk # "enum"

EOLs == {"CR", "LF", "CRLF"}
Failures == {"ERROR", "EOF"}

\* self.tk.next_token(): [st, r, n, exc], n the count of the token
ObNextToken(o) ==
    (CHOOSE val \in {[st |-> [o EXCEPT !.tk = res.st, !.scans = o.scans + 1],
         r |-> res.r, n |-> o.scans + 1, exc |-> res.exc]
     : res \in {next_token(o.tk)}} : TRUE)

\* self.tok = tok, tok being the n-th token of the call
SetTok(o, tok, n) == [o EXCEPT !.tok = tok, !.tokAt = n]

\* self.tok = self.tk.next_token(); return obj
AdvanceRet(o, obj) ==
    (CHOOSE val \in {IF a.exc # "none" THEN ObRaise(a.st, a.exc)
        ELSE ObRet(SetTok(a.st, a.r, a.n), obj)
     : a \in {ObNextToken(o)}} : TRUE)

\* ObjectStream.__init__: [st, exc]
ObInit ==
    (CHOOSE val \in {(CHOOSE val \in {[st |-> SetTok(a.st, a.r, a.n), exc |-> a.exc]
                      : a \in {ObNextToken(o)}} : TRUE)
     : o \in {[tk |-> TKInit, tok |-> Token("NONE"), xref_sec |-> [set |-> FALSE, sub_sections |-> <<>>], scans |-> 0, tokAt |-> 0, hdrAt |-> 0]}} : TRUE)

\* ObjectStream.seek: [st, exc]
ObSeek(o, offset) ==
    (CHOOSE val \in {[st |-> SetTok(a.st, a.r, a.n), exc |-> a.exc]
     : a \in {ObNextToken([o EXCEPT !.tk = TKSeek(o.tk, offset)])}} : TRUE)

\* ObjectStream.tell: the position at which the next object would begin
\* is not among the sources

RECURSIVE next_object(_, _)
RECURSIVE get_indirect_obj_def(_, _)
RECURSIVE ArrayLoop(_, _, _, _, _)
RECURSIVE DictLoop(_, _, _, _, _, _)
RECURSIVE deref_object(_, _, _)

\* ObjectStream.get_indirect_obj_def
get_indirect_obj_def(o, d) ==
    (CHOOSE val \in {IF a.exc # "none" THEN ObRaise(a.st, a.exc)
        ELSE
        (CHOOSE val \in {IF b.exc # "none" THEN b
            ELSE IF b.r.type \in Failures THEN b
            ELSE IF ~HasType(b.st.tok) THEN ObRaise(b.st, "AttributeError")
            ELSE IF b.st.tok.type \in EOLs
            THEN (CHOOSE val \in {IF c.exc # "none" THEN ObRaise(c.st, c.exc)
                     ELSE IF ~HasType(c.r) THEN ObRaise(c.st, "AttributeError")
                     ELSE IF c.r.type = "EOF" THEN ObRet(c.st, PdfObject("EOF"))
                     ELSE IF c.r.type = "ERROR" THEN ObRet(c.st, PdfObject("ERROR"))
                     ELSE IF c.r.type = "OBJECT_END" THEN ObRet(c.st, b.r)
                     ELSE ObRet(c.st, NoneObj)
                  : c \in {ObNextToken(b.st)}} : TRUE)
            ELSE IF b.st.tok.type = "OBJECT_END" THEN b
            ELSE ObRet(b.st, NoneObj)
         : b \in {next_object(SetTok(a.st, a.r, a.n), d)}} : TRUE)
     : a \in {ObNextToken(o)}} : TRUE)

\* get_array: the while loop; tok is its local, the n-th token of the call
ArrayLoop(o, tok, n, arr, d) ==
    IF ~HasType(tok) THEN ObRaise(o, "AttributeError")
    ELSE IF tok.type = "ARRAY_END" THEN ObRet(o, PdfObjectK("ARRAY", "array", arr))
    ELSE IF tok.type = "ERROR" THEN ObRet(o, PdfObject("ERROR"))
    ELSE IF tok.type = "EOF" THEN ObRet(o, PdfObject("EOF"))
    ELSE IF tok.type \in EOLs
    THEN (CHOOSE val \in {IF a.exc # "none" THEN ObRaise(a.st, a.exc)
             ELSE ArrayLoop(a.st, a.r, a.n, arr, d)
          : a \in {ObNextToken(o)}} : TRUE)
    ELSE (CHOOSE val \in {IF b.exc # "none" THEN b
             ELSE IF b.r.type \in Failures THEN b
             ELSE ArrayLoop(b.st, b.st.tok, b.st.tokAt, Append(arr, b.r), d)
          : b \in {next_object(SetTok(o, tok, n), d)}} : TRUE)

\* ObjectStream.get_array
get_array(o, d) ==
    (CHOOSE val \in {IF a.exc # "none" THEN ObRaise(a.st, a.exc)
        ELSE ArrayLoop(a.st, a.r, a.n, <<>>, d)
     : a \in {ObNextToken(o)}} : TRUE)

\* get_dictionary: the while loop; tok is its local, the n-th token of the call
DictLoop(o, tok, n, keys, kids, d) ==
    IF ~HasType(tok) THEN ObRaise(o, "AttributeError")
    ELSE IF tok.type = "DICT_END"
    THEN ObRet(SetTok(o, tok, n),
               [PdfObject("DICTIONARY") EXCEPT !.k = "dict", !.keys = keys, !.kids = kids])
    ELSE IF tok.type = "ERROR" THEN ObRet(o, PdfObject("ERROR"))
    ELSE IF tok.type = "EOF" THEN ObRet(o, PdfObject("EOF"))
    ELSE IF tok.type \in EOLs
    THEN (CHOOSE val \in {IF a.exc # "none" THEN ObRaise(a.st, a.exc)
             ELSE DictLoop(a.st, a.r, a.n, keys, kids, d)
          : a \in {ObNextToken(o)}} : TRUE)
    ELSE IF tok.type = "NAME"
    THEN (CHOOSE val \in {IF a.exc # "none" THEN ObRaise(a.st, a.exc)
             ELSE
             (CHOOSE val \in {(CHOOSE val \in {(CHOOSE val \in {IF b.exc # "none" THEN b
                 ELSE IF tok.dk # "bytes" THEN ObRaise(b.st, "AttributeError")
                 ELSE IF ~key.ok THEN ObRaise(b.st, "UnicodeDecodeError")
                 ELSE DictLoop(b.st, b.st.tok, b.st.tokAt, nd.keys, nd.kids, d)
                                                : nd \in {DictSet(keys, kids, key.v, b.r)}} : TRUE)
                               : key \in {IF tok.dk = "bytes" THEN UnicodeEscape(tok.data, <<>>) ELSE [ok |-> FALSE, v |-> <<>>]}} : TRUE)
              : b \in {next_object(SetTok(a.st, a.r, a.n), d)}} : TRUE)
          : a \in {ObNextToken(o)}} : TRUE)
    ELSE ObRet(o, PdfObject("ERROR"))

\* ObjectStream.get_dictionary
get_dictionary(o, d) ==
    (CHOOSE val \in {IF a.exc # "none" THEN ObRaise(a.st, a.exc)
        ELSE DictLoop(a.st, a.r, a.n, <<>>, <<>>, d)
     : a \in {ObNextToken(o)}} : TRUE)

\* self.tk.next_stream(length): [st, r, n, exc]; length is [int, v], int
\* FALSE when it is not an integer
ObNextStream(o, length) ==
    IF ~length.int
    THEN [st |-> o, r |-> Token("NONE"), n |-> o.scans, exc |-> "TypeError"]
    ELSE (CHOOSE val \in {[st |-> [o EXCEPT !.tk = res.st, !.scans = o.scans + 1],
              r |-> res.r, n |-> o.scans + 1, exc |-> res.exc]
          : res \in {TKNextStream(o.tk, length.v)}} : TRUE)

\* get_stream taking any end of line after the keyword stream
StreamEols_any == EOLs

\* get_stream: the ends of line that may follow the keyword stream
StreamEols == {"LF", "CRLF"}

\* ObjectStream.get_stream
get_stream(o, length) ==
    (CHOOSE val \in {IF a.exc # "none" THEN ObRaise(a.st, a.exc)
        ELSE IF ~HasType(a.r) THEN ObRaise(a.st, "AttributeError")
        ELSE IF a.r.type = "EOF" THEN ObRet(a.st, PdfObject("EOF"))
        ELSE IF a.r.type \notin StreamEols THEN ObRet(a.st, PdfObject("ERROR"))
        ELSE
        (CHOOSE val \in {IF b.exc # "none" THEN ObRaise(b.st, b.exc)
            ELSE IF b.r.type = "EOF" THEN ObRet(b.st, PdfObject("EOF"))
            ELSE
            (CHOOSE val \in {IF c.exc # "none" THEN ObRaise(c.st, c.exc)
                ELSE IF ~HasType(c.r) THEN ObRaise(c.st, "AttributeError")
                ELSE IF c.r.type = "EOF" THEN ObRet(c.st, PdfObject("EOF"))
                ELSE IF c.r.type \notin EOLs THEN ObRet(c.st, PdfObject("ERROR"))
                ELSE
                (CHOOSE val \in {IF e.exc # "none" THEN ObRaise(e.st, e.exc)
                    ELSE IF ~HasType(e.r) THEN ObRaise(e.st, "AttributeError")
                    ELSE IF e.r.type = "EOF" THEN ObRet(e.st, PdfObject("EOF"))
                    ELSE IF e.r.type # "STREAM_END" THEN ObRet(e.st, PdfObject("ERROR"))
                    ELSE ObRet(e.st, PdfObjectV("STREAM", "bytes", b.r.data))
                 : e \in {ObNextToken(c.st)}} : TRUE)
             : c \in {ObNextToken(b.st)}} : TRUE)
         : b \in {ObNextStream(a.st, length)}} : TRUE)
     : a \in {ObNextToken(o)}} : TRUE)

\* self.tk.get_subsection_header(): [st, r, n, exc]
ObSubsectionHeader(o) ==
    (CHOOSE val \in {[st |-> [o EXCEPT !.tk = res.st, !.scans = o.scans + 1],
         r |-> res.r, n |-> o.scans + 1, exc |-> res.exc]
     : res \in {get_subsection_header(o.tk)}} : TRUE)

\* self.tk.get_subsection_entry(): [st, r, n, exc]
ObSubsectionEntry(o) ==
    (CHOOSE val \in {[st |-> [o EXCEPT !.tk = res.st, !.scans = o.scans + 1],
         r |-> res.r, n |-> o.scans + 1, exc |-> res.exc]
     : res \in {get_subsection_entry(o.tk)}} : TRUE)

\* get_xref_section: for i in range(entry_cnt); [st, r, subs, exc], r is the
\* object to return at once, NoneObj to go on
RECURSIVE EntryLoop(_, _, _)
EntryLoop(o, subs, todo) ==
    IF todo <= 0 THEN [st |-> o, r |-> NoneObj, subs |-> subs, exc |-> "none"]
    ELSE (CHOOSE val \in {IF e.exc # "none" THEN [st |-> e.st, r |-> NoneObj, subs |-> subs, exc |-> e.exc]
             ELSE IF e.r.type \in Failures
             THEN [st |-> e.st, r |-> PdfObject(e.r.type), subs |-> subs, exc |-> "none"]
             ELSE EntryLoop(e.st, [subs EXCEPT !.entries = Append(@, e.r.data)], todo - 1)
          : e \in {ObSubsectionEntry(o)}} : TRUE)

\* get_xref_section returning the section without reading the look-ahead
\* token
XrefDone_no_token(o) ==
    ObRet(o, [PdfObject("XREF_SECTION") EXCEPT !.k = "xref",
                                               !.xref = o.xref_sec.sub_sections])

\* get_xref_section: the header could not be parsed as one, the section is
\* over: prime the look-ahead token and return the section
XrefDone(o) ==
    AdvanceRet(o, [PdfObject("XREF_SECTION") EXCEPT !.k = "xref",
                                                    !.xref = o.xref_sec.sub_sections])

\* get_xref_section: the loop over the sub-sections
RECURSIVE XrefLoop(_)
XrefLoop(o) ==
    (CHOOSE val \in {IF h.exc # "none" THEN ObRaise(h.st, h.exc)
        ELSE IF h.r.type \in Failures THEN ObRet(h.st, PdfObject(h.r.type))
        ELSE IF h.r.type = "UNEXPECTED" THEN XrefDone(h.st)
        ELSE (CHOOSE val \in {IF l.exc # "none" THEN ObRaise(l.st, l.exc)
                 ELSE IF l.r # NoneObj THEN ObRet(l.st, l.r)
                 ELSE XrefLoop([l.st EXCEPT !.xref_sec.sub_sections = Append(@, l.subs)])
              : l \in {EntryLoop(h.st, XrefSubSection(h.r.data[1], h.r.data[2]), h.r.data[2])}} : TRUE)
     : h \in {ObSubsectionHeader([o EXCEPT !.hdrAt = TKTell(o.tk)])}} : TRUE)

\* ObjectStream.get_xref_section
get_xref_section(o) ==
    (CHOOSE val \in {IF a.exc # "none" THEN ObRaise(a.st, a.exc)
        ELSE IF ~HasType(a.r) THEN ObRaise(a.st, "AttributeError")
        ELSE IF a.r.type \notin EOLs THEN ObRet(SetTok(a.st, a.r, a.n), PdfObject("ERROR"))
        ELSE XrefLoop([a.st EXCEPT !.xref_sec = [set |-> TRUE, sub_sections |-> <<>>]])
     : a \in {ObNextToken(o)}} : TRUE)

\* next_object: while tok.type in [CR, LF, CRLF]: tok = self.tok = next_token()
RECURSIVE ObSkipEol(_)
ObSkipEol(o) ==
    IF ~HasType(o.tok) THEN [st |-> o, exc |-> "AttributeError"]
    ELSE IF o.tok.type \in EOLs
    THEN (CHOOSE val \in {IF a.exc # "none" THEN [st |-> a.st, exc |-> a.exc]
             ELSE ObSkipEol(SetTok(a.st, a.r, a.n))
          : a \in {ObNextToken(o)}} : TRUE)
    ELSE [st |-> o, exc |-> "none"]

\* next_object, after a dictionary: self.tok = next_token() until it is no
\* end of line
RECURSIVE SkipEolAfter(_)
SkipEolAfter(o) ==
    (CHOOSE val \in {IF a.exc # "none" THEN [st |-> a.st, exc |-> a.exc]
        ELSE IF ~HasType(a.r) THEN [st |-> SetTok(a.st, a.r, a.n), exc |-> "AttributeError"]
        ELSE IF a.r.type \in EOLs THEN SkipEolAfter(SetTok(a.st, a.r, a.n))
        ELSE [st |-> SetTok(a.st, a.r, a.n), exc |-> "none"]
     : a \in {ObNextToken(o)}} : TRUE)

\* next_object, after 'trailer': tok = next_token() while it is an end of
\* line; [st, r, n, exc]
RECURSIVE TrailerSkip(_)
TrailerSkip(o) ==
    (CHOOSE val \in {IF a.exc # "none" THEN a
        ELSE IF ~HasType(a.r) THEN [a EXCEPT !.exc = "AttributeError"]
        ELSE IF a.r.type \in EOLs THEN TrailerSkip(a.st)
        ELSE a
     : a \in {ObNextToken(o)}} : TRUE)

IndirectDef(tok, tok2, obj) ==
    [PdfObject("IND_OBJ_DEF") EXCEPT !.k = "def", !.v = tok.data \o tok2.data, !.kids = <<obj>>]

IndirectRef(tok, tok2) ==
    PdfObjectV("IND_OBJ_REF", "ref", tok.data \o tok2.data)

\* next_object: the look-ahead token is an INTEGER
IntegerBranch(o, tok, d) ==
    LET Plain(oo, pos) == AdvanceRet([oo EXCEPT !.tk = TKSeek(oo.tk, pos)],
                                     PdfObjectV("INTEGER", "int", tok.data))
    IN
    (CHOOSE val \in {(CHOOSE val \in {IF a2.exc # "none" THEN ObRaise(a2.st, a2.exc)
        ELSE IF ~HasType(a2.r) THEN ObRaise(a2.st, "AttributeError")
        ELSE IF a2.r.type # "INTEGER" THEN Plain(a2.st, pos)
        ELSE
        (CHOOSE val \in {IF a3.exc # "none" THEN ObRaise(a3.st, a3.exc)
            ELSE IF ~HasType(a3.r) THEN ObRaise(a3.st, "AttributeError")
            ELSE IF a3.r.type = "OBJECT_BEGIN"
            THEN (CHOOSE val \in {IF g.exc # "none" THEN g
                     ELSE IF g.r = NoneObj THEN ObRaise(g.st, "AttributeError")
                     ELSE IF g.r.type \in Failures THEN g
                     ELSE AdvanceRet(g.st, IndirectDef(tok, a2.r, g.r))
                  : g \in {get_indirect_obj_def(SetTok(a3.st, a3.r, a3.n), d)}} : TRUE)
            ELSE IF a3.r.type = "OBJ_REF" THEN AdvanceRet(a3.st, IndirectRef(tok, a2.r))
            ELSE Plain(a3.st, pos)
         : a3 \in {ObNextToken(a2.st)}} : TRUE)
                      : a2 \in {ObNextToken(o)}} : TRUE)
     : pos \in {TKTell(o.tk)}} : TRUE)

\* next_object: a dictionary followed by 'stream'
StreamBranch(o, dict, d) ==
    LET body(oo, ln) ==
            (CHOOSE val \in {IF g.exc # "none" THEN g
                ELSE IF g.r.type \in Failures THEN g
                ELSE AdvanceRet(g.st, PdfObjectK("COUPLE", "couple", <<dict, g.r>>))
             : g \in {get_stream(oo, ln)}} : TRUE)
    IN
    (CHOOSE val \in {IF ~len.found THEN ObRaise(o, "KeyError")
        ELSE IF len.obj.type = "INTEGER" THEN body(o, [int |-> TRUE, v |-> len.obj.v[1]])
        ELSE IF len.obj.type = "IND_OBJ_REF"
        THEN (CHOOSE val \in {IF r.exc # "none" THEN r
                 ELSE body(r.st, [int |-> FALSE, v |-> 0])
              : r \in {deref_object(o, len.obj, d)}} : TRUE)
        ELSE ObRet(o, PdfObject("ERROR"))
     : len \in {DictGet(dict, KeyLength)}} : TRUE)

\* next_object: the look-ahead token is a DICT_BEGIN
DictBranch(o, d) ==
    (CHOOSE val \in {IF g.exc # "none" THEN g
        ELSE IF g.r.type \in Failures THEN g
        ELSE (CHOOSE val \in {IF s.exc # "none" THEN ObRaise(s.st, s.exc)
                 ELSE IF s.st.tok.type # "STREAM_BEGIN" THEN ObRet(s.st, g.r)
                 ELSE StreamBranch(s.st, g.r, d)
              : s \in {SkipEolAfter(g.st)}} : TRUE)
     : g \in {get_dictionary(o, d)}} : TRUE)

\* next_object: the look-ahead token is TRAILER
TrailerBranch(o, d) ==
    (CHOOSE val \in {IF a.exc # "none" THEN ObRaise(a.st, a.exc)
        ELSE IF a.r.type # "DICT_BEGIN" THEN AdvanceRet(a.st, PdfObject("ERROR"))
        ELSE (CHOOSE val \in {IF g.exc # "none" THEN g
                 ELSE AdvanceRet(g.st, PdfObjectK("TRAILER", "trailer", <<g.r>>))
              : g \in {get_dictionary(a.st, d)}} : TRUE)
     : a \in {TrailerSkip(o)}} : TRUE)

\* ObjectStream.next_object; d bounds the depth of nested deref_object calls
next_object(o, d) ==
    (CHOOSE val \in {(CHOOSE val \in {(CHOOSE val \in {IF s.exc # "none" THEN ObRaise(o1, s.exc)
        ELSE
        CASE tok.type = "EOF" -> ObRet(o1, PdfObject("EOF"))
          [] tok.type = "ERROR" -> ObRet(o1, PdfObject("ERROR"))
          [] tok.type = "VERSION_MARKER" ->
               AdvanceRet(o1, PdfObjectV("VERSION_MARKER", tok.dk, tok.data))
          [] tok.type = "TRUE" -> AdvanceRet(o1, PdfObjectV("BOOLEAN", "bool", <<1>>))
          [] tok.type = "FALSE" -> AdvanceRet(o1, PdfObjectV("BOOLEAN", "bool", <<0>>))
          [] tok.type = "INTEGER" -> IntegerBranch(o1, tok, d)
          [] tok.type = "REAL" -> AdvanceRet(o1, PdfObjectV("REAL", tok.dk, tok.data))
          [] tok.type \in {"LITERAL_STRING", "HEX_STRING"} ->
               AdvanceRet(o1, PdfObjectV("STRING", tok.dk, tok.data))
          [] tok.type = "NAME" -> AdvanceRet(o1, PdfObjectV("NAME", tok.dk, tok.data))
          [] tok.type = "ARRAY_BEGIN" ->
               (CHOOSE val \in {IF g.exc # "none" THEN g
                   ELSE IF g.r.type \in Failures THEN g
                   ELSE AdvanceRet(g.st, g.r)
                : g \in {get_array(o1, d)}} : TRUE)
          [] tok.type = "DICT_BEGIN" -> DictBranch(o1, d)
          [] tok.type = "XREF_SECTION" -> get_xref_section(o1)
          [] tok.type = "TRAILER" -> TrailerBranch(o1, d)
          [] tok.type = "STARTXREF" -> AdvanceRet(o1, PdfObject("STARTXREF"))
          [] tok.type = "EOF_MARKER" -> AdvanceRet(o1, PdfObject("EOF_MARKER"))
          [] tok.type = "STREAM_BEGIN" -> ObRet(o1, PdfObject("ERROR"))
          [] tok.type = "NULL" -> AdvanceRet(o1, PdfObject("NULL"))
          [] OTHER -> AdvanceRet(o1, PdfObject("ERROR"))
                                       : tok \in {o1.tok}} : TRUE)
                      : o1 \in {s.st}} : TRUE)
     : s \in {ObSkipEol(o)}} : TRUE)

\* ObjectStream.get_cross_reference
get_cross_reference(o, d) ==
    IF ~HasType(o.tok) THEN ObRaise(o, "AttributeError")
    ELSE IF o.tok.type = "EOF" THEN ObRet(o, PdfObject("EOF"))
    ELSE IF o.tok.type = "XREF_SECTION" THEN get_xref_section(o)
    ELSE IF o.tok.type = "INTEGER"
    THEN (CHOOSE val \in {IF b.exc # "none" THEN b
             ELSE IF b.r.type = "IND_OBJ_DEF" THEN b
             ELSE ObRet(b.st, PdfObject("ERROR"))
          : b \in {next_object(o, d)}} : TRUE)
    ELSE ObRet(o, PdfObject("ERROR"))

\* ObjectStream.deref_object
deref_object(o, iref, d) ==
    IF iref.type # "IND_OBJ_REF" THEN ObRet(o, NoneObj)
    ELSE IF ~o.xref_sec.set THEN ObRaise(o, "AttributeError")
    ELSE (CHOOSE val \in {IF e.exc # "none" THEN ObRaise(o, e.exc)
             ELSE IF ~e.found THEN ObRet(o, NoneObj)
             ELSE (CHOOSE val \in {IF s.exc # "none" THEN ObRaise(s.st, s.exc)
                      ELSE IF d = 0 THEN ObRaise(s.st, "RecursionError")
                      ELSE (CHOOSE val \in {IF b.exc # "none" THEN b
                               ELSE IF b.r.type # "IND_OBJ_DEF" THEN ObRet(b.st, NoneObj)
                               ELSE ObRet(b.st, b.r.kids[1])
                            : b \in {next_object(s.st, d - 1)}} : TRUE)
                   : s \in {ObSeek(o, e.entry[1])}} : TRUE)
          : e \in {SecGetObject(o.xref_sec.sub_sections, iref.v[1])}} : TRUE)

----------------------------------------------------------------------------
(* L1 : a caller making any sequence of calls on one ByteStream *)

\* The file of the byte-level tests: every byte differs from its neighbours
CountingFile(len) == [k \in 1..len |-> k - 1]

\* The variables of the other layers, while this one is exercised
IdleTK ==
    /\ tk = 0
    /\ ref = 0
    /\ tkLast = 0
    /\ justPeeked = 0
    /\ tracking = FALSE

IdleOB ==
    /\ ob = 0
    /\ obLast = 0

NoCall == [op |-> "none", n |-> 0, at |-> 0, ok |-> TRUE, r |-> PyNone, exc |-> "none"]

\* The offset of the next byte a consuming call has to deliver
LogicalPos == base + Len(delivered)

Call(op, n, res) ==
    [op |-> op, n |-> n, at |-> LogicalPos, ok |-> intact, r |-> res.r, exc |-> res.exc]

\* What a consuming call adds to 'delivered'
Bytes(r) == IF r.k = "bytes" THEN r.v ELSE IF r.k = "int" /\ r.v >= 0 THEN <<r.v>> ELSE <<>>

Failed(res) == res.exc # "none" \/ (res.r.k = "int" /\ res.r.v = EOFB)

\* No caller in the sources catches what a ByteStream raises: an exception
\* ends the run
BSRunning == last.exc = "none"

InitBS ==
    /\ file \in {CountingFile(len) : len \in 0..MaxFileLen}
    /\ bs \in {BSInit(blk) : blk \in 1..MaxBlk}
    /\ last = NoCall
    /\ prev = NoCall
    /\ base = 0
    /\ delivered = <<>>
    /\ intact = TRUE
    /\ called = {}
    /\ IdleTK
    /\ IdleOB

DoNextByte(n) ==
    \E res \in {BSNextByte(bs, n)} :
        /\ BSRunning
        /\ bs' = res.st
        /\ last' = Call("next_byte", n, res)
        /\ prev' = last
        /\ delivered' = IF Failed(res) THEN delivered ELSE delivered \o Bytes(res.r)
        /\ intact' = (intact /\ ~Failed(res))
        /\ called' = called \cup {"next_byte"}
        /\ UNCHANGED <<file, base, tkvars, obvars>>

DoPeekByte(n) ==
    \E res \in {BSPeekByte(bs, n)} :
        /\ BSRunning
        /\ bs' = res.st
        /\ last' = Call("peek_byte", n, res)
        /\ prev' = last
        /\ intact' = (intact /\ res.exc = "none")
        /\ called' = called \cup {"peek_byte"}
        /\ UNCHANGED <<file, base, delivered, tkvars, obvars>>

DoNextStream(n) ==
    \E res \in {BSNextStream(bs, n)} :
        /\ BSRunning
        /\ bs' = res.st
        /\ last' = Call("next_stream", n, res)
        /\ prev' = last
        /\ delivered' = IF Failed(res) THEN delivered ELSE delivered \o Bytes(res.r)
        /\ intact' = (intact /\ ~Failed(res))
        /\ called' = called \cup {"next_stream"}
        /\ UNCHANGED <<file, base, tkvars, obvars>>

DoReset(offset) ==
    /\ BSRunning
    /\ bs' = BSReset(bs, offset)
    /\ last' = [NoCall EXCEPT !.op = "reset", !.n = offset, !.at = offset]
    /\ prev' = last
    /\ base' = offset
    /\ delivered' = <<>>
    /\ intact' = TRUE
    /\ called' = called \cup {"reset"}
    /\ UNCHANGED <<file, tkvars, obvars>>

NextBS ==
    \/ \E n \in 1..MaxReq : DoNextByte(n)
    \/ \E n \in 1..MaxReq : DoPeekByte(n)
    \/ \E n \in 0..MaxReq : DoNextStream(n)
    \/ \E offset \in 0..Len(file) : DoReset(offset)

SpecBS == InitBS /\ [][NextBS]_vars

----------------------------------------------------------------------------
(* L1 : properties *)

\* C9: next_stream(n) returns the n bytes at the logical read position, which
\* are the bytes the peek_byte(n) made just before it returned.
C9_NextStreamAtReadPosition ==
    (last.op = "next_stream" /\ last.ok /\ last.at + last.n <= Len(file))
        => /\ last.exc = "none"
           /\ last.r = PyBytes(Slice(file, last.at, last.at + last.n))
           /\ (prev.op = "peek_byte" /\ prev.n = last.n /\ last.n > 1)
                 => prev.r = last.r

\* C10: whatever the interleaving of next_byte, peek_byte and next_stream,
\* the consuming calls deliver the bytes of the file consecutively, in file
\* order, none skipped and none delivered twice.
C10_ConsumingCallsDeliverInOrder ==
    intact => delivered = Slice(file, base, base + Len(delivered))

----------------------------------------------------------------------------
(* L2 : a caller making any sequence of calls on one TokenStream *)

\* The bytes the short files are made of: 1 SP LF / R x
TKAlphabet == {49, SP, LF, SLASH, 82, 120}

\* Every file of at most n bytes of TKAlphabet
RECURSIVE FilesUpTo(_)
FilesUpTo(n) ==
    IF n = 0 THEN {<<>>}
    ELSE LET shorter == FilesUpTo(n - 1)
         IN  shorter \cup {Append(f, c) : f \in shorter, c \in TKAlphabet}

\* '<</C 6 0 R>>\n'
FileDict ==
    <<60, 60, 47, 67, 32, 54, 32, 48, 32, 82, 62, 62, 10>>

\* '7 2\rx 1\r\n'
FileHeaderCR ==
    <<55, 32, 50, 13, 120, 32, 49, 13, 10>>

\* '0000000017 00000 n \n1 1\n'
FileEntry ==
    <<48, 48, 48, 48, 48, 48, 48, 48, 49, 55, 32, 48, 48, 48, 48, 48, 32, 110, 32, 10, 49, 32, 49, 10>>

\* Files that end inside a token: '(ab'  '<4a'  '/N#4'  '%abcdefgh'
\* '%PDF-1'  '<'  '>'
FileOpenLiteral == <<40, 97, 98>>
FileOpenHex == <<60, 52, 97>>
FileOpenEscape == <<47, 78, 35, 52>>
FileOpenComment == <<37, 97, 98, 99, 100, 101, 102, 103, 104>>
FileShortProbe == <<37, 80, 68, 70, 45, 49>>
FileLoneLT == <<60>>
FileLoneGT == <<62>>

TruncatedFiles ==
    {FileOpenLiteral, FileOpenHex, FileOpenEscape, FileOpenComment, FileShortProbe,
     FileLoneLT, FileLoneGT}

\* Comments and markers: '%%EOF'  '%%EOF\n'  '%PDF-1.4\n'  '%a\n'
\* '%abcdefg\r\n1 '
FileEofMarker == <<37, 37, 69, 79, 70>>
FileEofMarkerLF == <<37, 37, 69, 79, 70, 10>>
FileVersion == <<37, 80, 68, 70, 45, 49, 46, 52, 10>>
FileShortComment == <<37, 97, 10>>
FileLongComment == <<37, 97, 98, 99, 100, 101, 102, 103, 13, 10, 49, 32>>

MarkerFiles ==
    {FileEofMarker, FileEofMarkerLF, FileVersion, FileShortComment, FileLongComment}

\* '/Name 123 true'
FileNameIntTrue == <<47, 78, 97, 109, 101, 32, 49, 50, 51, 32, 116, 114, 117, 101>>

\* Literal strings with escapes: '(\r\n\b\t\f\(\)\\S)'  '(\nS) '  '(a\(b) '
FileEscapes ==
    <<40, 92, 114, 92, 110, 92, 98, 92, 116, 92, 102, 92, 40, 92, 41, 92, 92, 83, 41>>
FileEscapeThenByte == <<40, 92, 110, 83, 41, 32>>
FileEscapedParen == <<40, 97, 92, 40, 98, 41, 32>>

\* '(\1a) '  '(\12b) '  '(\123c) '  '(\123456) '  '(\777) '
FileOctal1 == <<40, 92, 49, 97, 41, 32>>
FileOctal2 == <<40, 92, 49, 50, 98, 41, 32>>
FileOctal3 == <<40, 92, 49, 50, 51, 99, 41, 32>>
FileOctal6 == <<40, 92, 49, 50, 51, 52, 53, 54, 41, 32>>
FileOctalWide == <<40, 92, 55, 55, 55, 41, 32>>

\* '(It has zero (0) length.)'  '() '  '((())) '  '(\n(a)) '
FileNested ==
    <<40, 73, 116, 32, 104, 97, 115, 32, 122, 101, 114, 111, 32, 40, 48, 41, 32,
      108, 101, 110, 103, 116, 104, 46, 41>>
FileEmptyString == <<40, 41, 32>>
FileDeepString == <<40, 40, 40, 41, 41, 41, 32>>
FileEscapeThenParen == <<40, 92, 110, 40, 97, 41, 41, 32>>

\* '<48656C6C6F>'  '<48656C6C6F7> '  '<4> '  '<4g> '  '<4 1> '
FileHexHello == <<60, 52, 56, 54, 53, 54, 67, 54, 67, 54, 70, 62>>
FileHexOdd == <<60, 52, 56, 54, 53, 54, 67, 54, 67, 54, 70, 55, 62, 32>>
FileHexOne == <<60, 52, 62, 32>>
FileHexBad == <<60, 52, 103, 62, 32>>
FileHexSpace == <<60, 52, 32, 49, 62, 32>>

HexFiles == {FileHexHello, FileHexOdd, FileHexOne, FileHexBad, FileHexSpace}

\* Malformed names and stray closers: '/a' 01 'b '  '/a#4g '  ') 1 '  '> 1 '
\* '} 1 '
FileNameControl == <<47, 97, 1, 98, 32>>
FileNameBadEscape == <<47, 97, 35, 52, 103, 32>>
FileStrayParen == <<41, 32, 49, 32>>
FileStrayGT == <<62, 32, 49, 32>>
FileStrayBrace == <<125, 32, 49, 32>>

MalformedFiles ==
    {FileNameControl, FileNameBadEscape, FileStrayParen, FileStrayGT, FileStrayBrace}

EscapeFiles ==
    {FileNested, FileEmptyString, FileDeepString, FileEscapeThenParen,
     FileEscapes, FileEscapeThenByte, FileEscapedParen,
     FileOctal1, FileOctal2, FileOctal3, FileOctal6, FileOctalWide}

TKFixtures ==
    {FileDict, FileHeaderCR, FileEntry, FileNameIntTrue}
        \cup TruncatedFiles \cup MarkerFiles \cup EscapeFiles \cup HexFiles
        \cup MalformedFiles

IdleBS ==
    /\ bs = 0
    /\ last = 0
    /\ prev = 0
    /\ base = 0
    /\ delivered = <<>>
    /\ intact = FALSE
    /\ called = {}

NoPeek == [valid |-> FALSE, r |-> Token("NONE"), q |-> <<>>]

\* The record of a call: before is the TokenStream before the call, refr and
\* refexc what the reference TokenStream answered to the same next_token
TkCall(op, arg, res, sres) ==
    [op |-> op, arg |-> arg, r |-> res.r, exc |-> res.exc, before |-> tk,
     refr |-> sres.r, refexc |-> sres.exc, pk |-> justPeeked, tracked |-> tracking]

NoTkCall ==
    [op |-> "init", arg |-> 0, r |-> Token("NONE"), exc |-> "none", before |-> TKInit,
     refr |-> Token("NONE"), refexc |-> "none", pk |-> NoPeek, tracked |-> TRUE]

\* No caller in the sources catches what a TokenStream raises: an exception
\* ends the run
TKRunning == tkLast.exc = "none"

InitTK ==
    /\ file \in FilesUpTo(MaxShort) \cup TKFixtures
    /\ tk = TKInit
    /\ ref = TKInit
    /\ tkLast = NoTkCall
    /\ justPeeked = NoPeek
    /\ tracking = TRUE
    /\ IdleBS
    /\ IdleOB

DoNextToken ==
    \E res \in {next_token(tk)}, sres \in {next_token_(ref)} :
        /\ TKRunning
        /\ tk' = res.st
        /\ ref' = IF tracking THEN sres.st ELSE ref
        /\ tkLast' = TkCall("next_token", 0, res, sres)
        /\ justPeeked' = NoPeek
        /\ tracking' = (tracking /\ res.exc = "none" /\ sres.exc = "none")
        /\ UNCHANGED <<file, bsvars, obvars>>

DoPeekToken ==
    \E res \in {peek_token(tk)} :
        /\ TKRunning
        /\ Len(tk.peeked) < MaxPeek
        /\ tk' = res.st
        /\ tkLast' = TkCall("peek_token", 0, res, res)
        /\ justPeeked' = [valid |-> res.exc = "none", r |-> res.r, q |-> tk.peeked]
        /\ tracking' = (tracking /\ res.exc = "none")
        /\ UNCHANGED <<file, bsvars, ref, obvars>>

\* A call that moves the TokenStream elsewhere: the reference starts again
\* from the state it leaves behind
Reposition(op, arg, res, inOrder) ==
    /\ TKRunning
    /\ tk' = res.st
    /\ ref' = res.st
    /\ tkLast' = TkCall(op, arg, res, res)
    /\ justPeeked' = NoPeek
    /\ tracking' = (inOrder /\ res.exc = "none")
    /\ UNCHANGED <<file, bsvars, obvars>>

DoSeek(offset) ==
    /\ TKRunning
    /\ tk' = TKSeek(tk, offset)
    /\ ref' = tk'
    /\ tkLast' = [NoTkCall EXCEPT !.op = "seek", !.arg = offset]
    /\ justPeeked' = NoPeek
    /\ tracking' = TRUE
    /\ UNCHANGED <<file, bsvars, obvars>>

DoGetSubsectionHeader ==
    Reposition("get_subsection_header", 0, get_subsection_header(tk), Len(tk.peeked) = 0)

DoGetSubsectionEntry ==
    Reposition("get_subsection_entry", 0, get_subsection_entry(tk), Len(tk.peeked) = 0)

DoTKNextStream(n) ==
    Reposition("next_stream", n, TKNextStream(tk, n), TRUE)

NextTK ==
    \/ DoNextToken
    \/ DoPeekToken
    \/ \E offset \in 0..Len(file) : DoSeek(offset)
    \/ DoGetSubsectionHeader
    \/ DoGetSubsectionEntry
    \/ \E n \in 0..MaxPeek : DoTKNextStream(n)

SpecTK == InitTK /\ [][NextTK]_vars

----------------------------------------------------------------------------
(* L2 : properties *)

\* What a caller sees of a call: the token returned and the exception raised
Seen(res) == [r |-> res.r, exc |-> res.exc]

\* C5: next_token hands out the peeked tokens oldest first and scans only
\* when the peek queue is empty, so the tokens it returns are the tokens a
\* TokenStream that never peeks returns, in the same order, whatever
\* peek_token calls come in between.
C5_NextTokenFifoSourceOrder ==
    (tkLast.op = "next_token" /\ tkLast.tracked)
        => /\ tkLast.r = tkLast.refr
           /\ tkLast.exc = tkLast.refexc
           /\ Len(tkLast.before.peeked) > 0
                 => /\ tkLast.r = Head(tkLast.before.peeked)
                    /\ tk.peeked = Tail(tkLast.before.peeked)
                    /\ tk.bf = tkLast.before.bf
                    /\ tk.cc = tkLast.before.cc

\* two different tokens were waiting and next_token returned the older one
C5_Witness ==
    /\ tkLast.op = "next_token"
    /\ tkLast.tracked
    /\ Len(tkLast.before.peeked) = 2
    /\ tkLast.before.peeked[1] # tkLast.before.peeked[2]
    /\ tkLast.r = tkLast.refr
    /\ tkLast.r.type # "EOF"

\* C6 as claimed: in every state, the token peek_token returned is the token
\* the next_token called right after it returns.
C6_PeekThenNextSameToken ==
    (tkLast.op = "next_token" /\ tkLast.pk.valid)
        => (tkLast.exc = "none" /\ tkLast.r = tkLast.pk.r)

\* C6: the token peek_token returned is the token the next_token called
\* right after it returns when the peek queue was empty before the peek;
\* when tokens were waiting, next_token returns the oldest of them and the
\* token just peeked stays at the end of the queue.
C6_PeekThenNextOldestQueued ==
    (tkLast.op = "next_token" /\ tkLast.pk.valid)
        => /\ tkLast.exc = "none"
           /\ tkLast.r = (IF tkLast.pk.q = <<>> THEN tkLast.pk.r ELSE Head(tkLast.pk.q))
           /\ tkLast.pk.q # <<>> => tk.peeked[Len(tk.peeked)] = tkLast.pk.r

\* peek_token, with a token already waiting, then next_token: two tokens
C6_Witness ==
    /\ tkLast.op = "next_token"
    /\ tkLast.pk.valid
    /\ tkLast.pk.q # <<>>
    /\ tkLast.r = Head(tkLast.pk.q)
    /\ tkLast.r # tkLast.pk.r

\* The look-ahead byte of t is the byte right before the read position of
\* its byte source, or -1 with the source at the end of the input
CCInPlace(t) ==
    IF t.cc = EOFB THEN BSTell(t.bf) = Len(file)
    ELSE BSTell(t.bf) >= 1 /\ file[BSTell(t.bf)] = t.cc

\* C7: when get_subsection_header returns UNEXPECTED, the look-ahead byte
\* and the position of the byte stream are what they were before the call:
\* tell() is unchanged and, the look-ahead byte the call was given being
\* the byte at tell(), the next scan reads the line again from its first
\* byte, as a TokenStream sent to that offset with seek() does.
C7_HeaderUnexpectedRestores ==
    (tkLast.op = "get_subsection_header" /\ tkLast.exc = "none"
        /\ tkLast.r.type = "UNEXPECTED")
        => /\ tk.cc = tkLast.before.cc
           /\ BSTell(tk.bf) = BSTell(tkLast.before.bf)
           /\ TKTell(tk) = TKTell(tkLast.before)
           /\ tk.peeked = tkLast.before.peeked
           /\ CCInPlace(tkLast.before)
                 => Seen(next_token_(tk)) = Seen(next_token_(TKSeek(tk, TKTell(tkLast.before))))

\* UNEXPECTED after the scan had read a number and gone past it
C7_Witness ==
    /\ tkLast.op = "get_subsection_header"
    /\ tkLast.r.type = "UNEXPECTED"
    /\ tkLast.before.cc \in Digits
    /\ CCInPlace(tkLast.before)
    /\ tk.bf.buf # tkLast.before.bf.buf
    /\ next_token(tk).r.type = "INTEGER"

\* The tokens (or the exception) of k successive next_token calls
RECURSIVE TokensFrom(_, _)
TokensFrom(t, k) ==
    IF k = 0 THEN <<>>
    ELSE LET res == next_token(t)
         IN  IF res.exc # "none" THEN <<Seen(res)>>
             ELSE <<Seen(res)>> \o TokensFrom(res.st, k - 1)

\* C8: in a state reached by next_token calls alone, with no token waiting
\* in the peek queue, seek(tell()) followed by next_token calls returns the
\* tokens the same calls return without the seek.
C8_SeekTellRewinds ==
    (tkLast.op \in {"init", "next_token"} /\ tkLast.exc = "none" /\ Len(tk.peeked) = 0)
        => TokensFrom(TKSeek(tk, TKTell(tk)), MaxPeek) = TokensFrom(tk, MaxPeek)

----------------------------------------------------------------------------
(* L3 : a caller making any sequence of calls on one ObjectStream *)

\* '<< /Length n >>', n a single digit
DictLength(n) ==
    <<60, 60, 32, 47, 76, 101, 110, 103, 116, 104, 32, 48 + n, 32, 62, 62>>

\* The bodies of the stream files: '', 'a', 'Hello', LF 'a', 'a' CR LF 'b'
StreamBodies ==
    {<<>>, <<97>>, <<72, 101, 108, 108, 111>>, <<LF, 97>>, <<97, CR, LF, 98>>}

\* A dictionary whose Length is the length of the body, end-of-line markers
\* pre, the keyword stream, the end of line eol1, the body, the end of line
\* eol2, the keyword endstream, and post up to the end of the file
StreamCases ==
    [pre : {<<>>, <<LF>>, <<CR, LF>>}, eol1 : {<<LF>>, <<CR, LF>>},
     body : StreamBodies, eol2 : {<<LF>>, <<CR>>, <<CR, LF>>},
     post : {<<>>, <<LF>>}]

StreamFile(c) ==
    DictLength(Len(c.body)) \o c.pre \o KwStream \o c.eol1 \o c.body \o c.eol2
        \o KwEndstream \o c.post

\* '<< /Length 5 >>' LF 'stream', the bytes after, 'Hello' LF 'endstream' LF
StreamThen(after) ==
    DictLength(5) \o <<LF>> \o KwStream \o after
        \o <<72, 101, 108, 108, 111, LF>> \o KwEndstream \o <<LF>>

\* What follows the keyword stream in place of LF or CRLF: CR, SP, CR SP,
\* '[', CR '/a' SP
BadStreamTails ==
    {<<CR>>, <<SP>>, <<CR, SP>>, <<LBRACKET>>, <<CR, SLASH, 97, SP>>}

BadStreamFiles == {StreamThen(after) : after \in BadStreamTails}

\* '<< ', the entries, ' >>' LF 'stream' LF 'Hello' LF 'endstream' LF
DictThenStream(entries) ==
    <<60, 60, 32>> \o entries \o <<32, 62, 62, LF>> \o KwStream
        \o <<LF, 72, 101, 108, 108, 111, LF>> \o KwEndstream \o <<LF>>

\* Dictionaries without a usable Length: '/K 1'  '/Length /a'
\* '/Length (a)'  '/Length 1 0 R'
BadLengthEntries ==
    {<<47, 75, 32, 49>>,
     <<47>> \o KeyLength \o <<32, 47, 97>>,
     <<47>> \o KeyLength \o <<32, 40, 97, 41>>,
     <<47>> \o KeyLength \o <<32, 49, 32, 48, 32, 82>>}

BadLengthFiles == {DictThenStream(entries) : entries \in BadLengthEntries}

\* 'xref' LF '0 3' LF, three entries of 20 bytes, 'trailer' LF '<< /Size 3 >>'
FileXref ==
    <<120, 114, 101, 102, 10, 48, 32, 51, 10, 48, 48, 48, 48, 48, 48, 48,
      48, 48, 48, 32, 54, 53, 53, 51, 53, 32, 102, 32, 10, 48, 48, 48, 48,
      48, 48, 48, 48, 49, 55, 32, 48, 48, 48, 48, 48, 32, 110, 32, 10, 48,
      48, 48, 48, 48, 48, 48, 48, 56, 49, 32, 48, 48, 48, 48, 48, 32, 110,
      32, 10, 116, 114, 97, 105, 108, 101, 114, 10, 60, 60, 32, 47, 83,
      105, 122, 101, 32, 51, 32, 62, 62>>

\* a section of two entries, the second the offset (69) of the definition
\* '1 0 obj 5 endobj' that follows the trailer
FileXrefDef ==
    <<120, 114, 101, 102, 10, 48, 32, 50, 10, 48, 48, 48, 48, 48, 48, 48,
      48, 48, 48, 32, 54, 53, 53, 51, 53, 32, 102, 32, 10, 48, 48, 48, 48,
      48, 48, 48, 48, 54, 57, 32, 48, 48, 48, 48, 48, 32, 110, 32, 10, 116,
      114, 97, 105, 108, 101, 114, 10, 60, 60, 47, 83, 105, 122, 101, 32,
      50, 62, 62, 10, 49, 32, 48, 32, 111, 98, 106, 32, 53, 32, 101, 110,
      100, 111, 98, 106, 10>>

\* '4301 0 [ ]' LF
FileThreeInts ==
    <<52, 51, 48, 49, 32, 48, 32, 91, 32, 93, 10>>

\* 'stream' LF '1 '
FileStreamTop ==
    <<115, 116, 114, 101, 97, 109, 10, 49, 32>>

\* '<< 1 >>' LF
FileBadKey ==
    <<60, 60, 32, 49, 32, 62, 62, 10>>

\* a section of three entries: object 0 free, objects 1 and 2 both at the
\* offset (91) of the definition '1 0 obj 5 endobj' that follows the trailer;
\* then, at offset 108, '<< /Length 1 0 R >>' LF 'stream' LF 'Hello' LF
\* 'endstream' LF
FileIndirectLength ==
    <<120, 114, 101, 102, 10, 48, 32, 51, 10, 48, 48, 48, 48, 48, 48, 48,
      48, 48, 48, 32, 54, 53, 53, 51, 53, 32, 102, 32, 10, 48, 48, 48, 48,
      48, 48, 48, 48, 57, 49, 32, 48, 48, 48, 48, 48, 32, 110, 32, 10, 48,
      48, 48, 48, 48, 48, 48, 48, 57, 49, 32, 48, 48, 48, 48, 48, 32, 110,
      32, 10, 116, 114, 97, 105, 108, 101, 114, 10, 60, 60, 32, 47, 83, 105,
      122, 101, 32, 51, 32, 62, 62, 10, 49, 32, 48, 32, 111, 98, 106, 32,
      53, 32, 101, 110, 100, 111, 98, 106, 10, 60, 60, 32, 47, 76, 101, 110,
      103, 116, 104, 32, 49, 32, 48, 32, 82, 32, 62, 62, 10, 115, 116, 114,
      101, 97, 109, 10, 72, 101, 108, 108, 111, 10, 101, 110, 100, 115, 116,
      114, 101, 97, 109, 10>>

\* a section of one entry ended by the line '1 0 obj 5 endobj'
FileXrefThenDef ==
    <<120, 114, 101, 102, 10, 48, 32, 49, 10, 48, 48, 48, 48, 48, 48,
      48, 48, 48, 48, 32, 54, 53, 53, 51, 53, 32, 102, 32, 10, 49, 32,
      48, 32, 111, 98, 106, 32, 53, 32, 101, 110, 100, 111, 98, 106,
      10>>

\* three sub-sections: '0 0', '3 2' with two entries, '7 1' with one entry;
\* then 'trailer' LF '<< >>' LF
FileXrefSubs ==
    <<120, 114, 101, 102, 10, 48, 32, 48, 10, 51, 32, 50, 10, 48, 48,
      48, 48, 48, 48, 48, 48, 49, 55, 32, 48, 48, 48, 48, 48, 32, 110,
      32, 10, 48, 48, 48, 48, 48, 48, 48, 48, 56, 49, 32, 48, 48, 48,
      48, 49, 32, 102, 32, 10, 55, 32, 49, 10, 48, 48, 48, 48, 48, 48,
      48, 48, 57, 57, 32, 48, 48, 48, 48, 48, 32, 110, 32, 10, 116,
      114, 97, 105, 108, 101, 114, 10, 60, 60, 32, 62, 62, 10>>

\* 'xref' LF '0 -1' LF 'trailer' LF '<< >>' LF
FileXrefNegative ==
    <<120, 114, 101, 102, 10, 48, 32, 45, 49, 10, 116, 114, 97, 105,
      108, 101, 114, 10, 60, 60, 32, 62, 62, 10>>

\* '<< /K 1' CR LF '/L [ 1 2 ]' LF '/K << /M (a) >> /L 3 >>' LF
FileDictPairs ==
    <<60, 60, 32, 47, 75, 32, 49, 13, 10, 47, 76, 32, 91, 32, 49, 32,
      50, 32, 93, 10, 47, 75, 32, 60, 60, 32, 47, 77, 32, 40, 97, 41,
      32, 62, 62, 32, 47, 76, 32, 51, 32, 62, 62, 10>>

\* '<< /a\ 1 >> ': the name is 'a' and a backslash
FileDictBackslash ==
    <<60, 60, 32, 47, 97, 92, 32, 49, 32, 62, 62, 32>>

\* '<< /K 1 2 >>' LF
FileDictNoKey ==
    <<60, 60, 32, 47, 75, 32, 49, 32, 50, 32, 62, 62, 10>>

\* '1 0 obj 5 6 ': no endobj after the body of the definition
FileDefNoEnd ==
    <<49, 32, 48, 32, 111, 98, 106, 32, 53, 32, 54, 32>>

\* '1 0 obj 5' LF '6 ': no endobj after the end of line
FileDefNoEndEol ==
    <<49, 32, 48, 32, 111, 98, 106, 32, 53, 10, 54, 32>>

\* 'trailer' LF '<< /K 1 2 >>' LF '7 ': the dictionary fails to parse
FileTrailerBadDict ==
    <<116, 114, 97, 105, 108, 101, 114, 10, 60, 60, 32, 47, 75, 32, 49, 32, 50, 32, 62, 62, 10, 55, 32>>

\* 'trailer' LF '7 ': no dictionary
FileTrailerNoDict ==
    <<116, 114, 97, 105, 108, 101, 114, 10, 55, 32>>

\* '<< /Length 1 >>' LF 'stream' LF 'a' LF 'x ': no endstream
FileStreamNoEnd ==
    <<60, 60, 32, 47, 76, 101, 110, 103, 116, 104, 32, 49, 32, 62, 62, 10, 115, 116, 114, 101, 97, 109, 10, 97, 10, 120, 32>>

\* '<< /Length 1 >>' LF 'stream' LF 'a endstream' LF: no end of line after the data
FileStreamNoEol ==
    <<60, 60, 32, 47, 76, 101, 110, 103, 116, 104, 32, 49, 32, 62, 62, 10, 115, 116, 114, 101, 97, 109, 10, 97, 32, 101, 110, 100, 115, 116, 114, 101, 97, 109, 10>>

MissingTokenFiles ==
    {FileDefNoEnd, FileDefNoEndEol, FileTrailerBadDict, FileTrailerNoDict, FileStreamNoEnd, FileStreamNoEol}

\* two sub-sections that overlap: '0 2' with the entries of objects 0 and 1,
\* '1 2' with the entries of objects 1 and 2; then 'trailer' LF '<< >>' LF
FileXrefOverlap ==
    <<120, 114, 101, 102, 10, 48, 32, 50, 10, 48, 48, 48, 48, 48, 48, 48,
      48, 48, 48, 32, 54, 53, 53, 51, 53, 32, 102, 32, 10, 48, 48, 48,
      48, 48, 48, 48, 48, 48, 51, 32, 48, 48, 48, 48, 48, 32, 110, 32,
      10, 49, 32, 50, 10, 48, 48, 48, 48, 48, 48, 48, 48, 48, 57, 32,
      48, 48, 48, 48, 48, 32, 110, 32, 10, 48, 48, 48, 48, 48, 48, 48,
      48, 48, 53, 32, 48, 48, 48, 48, 49, 32, 110, 32, 10, 116, 114, 97,
      105, 108, 101, 114, 10, 60, 60, 32, 62, 62, 10>>

\* a section of one entry, then 'xref 0 1' LF: a second 'xref' that no end
\* of line follows
FileXrefTwice ==
    <<120, 114, 101, 102, 10, 48, 32, 49, 10, 48, 48, 48, 48, 48, 48, 48,
      48, 48, 48, 32, 54, 53, 53, 51, 53, 32, 102, 32, 10, 120, 114, 101,
      102, 32, 48, 32, 49, 10>>

\* '<< /K >> /A 1 >>' LF: the key K has no value
FileDictKeyOnly ==
    <<60, 60, 32, 47, 75, 32, 62, 62, 32, 47, 65, 32, 49, 32, 62, 62, 10>>

OBFixtures ==
    {FileXref, FileXrefDef, FileThreeInts, FileStreamTop, FileBadKey, FileIndirectLength,
     FileXrefThenDef, FileXrefSubs, FileXrefNegative, FileDictPairs, FileDictBackslash,
     FileDictNoKey, FileDictKeyOnly, FileXrefOverlap, FileXrefTwice}

\* The words the short files are made of:
\*   '1 ' 'R ' 'obj ' 'endobj ' '[' '] '
\*   '<<' '>> ' '/K ' 'x ' '\n' 'R'
OBWords ==
    {<<49, 32>>,
     <<82, 32>>,
     <<111, 98, 106, 32>>,
     <<101, 110, 100, 111, 98, 106, 32>>,
     <<91>>,
     <<93, 32>>,
     <<60, 60>>,
     <<62, 62, 32>>,
     <<47, 75, 32>>,
     <<120, 32>>,
     <<10>>,
     <<82>>}

\* Every file of at most n words of OBWords
RECURSIVE WordFiles(_)
WordFiles(n) ==
    IF n = 0 THEN {<<>>}
    ELSE LET shorter == WordFiles(n - 1)
         IN  shorter \cup {f \o w : f \in shorter, w \in OBWords}

\* The record of a call: before is the ObjectStream before the call
ObCall(op, arg, res) ==
    [op |-> op, arg |-> arg, r |-> res.r, exc |-> res.exc, before |-> ob]

\* No caller in the sources catches what an ObjectStream raises: an
\* exception ends the run
OBRunning == obLast.exc = "none"

\* The ObjectStream as a call finds it: no token handed over yet
Entering(o) == [o EXCEPT !.scans = 0, !.tokAt = 0]

InitOB ==
    /\ file \in WordFiles(MaxWords) \cup OBFixtures \cup {StreamFile(c) : c \in StreamCases}
                \cup BadStreamFiles \cup BadLengthFiles \cup MissingTokenFiles
    /\ \E made \in {ObInit} :
          /\ ob = made.st
          /\ obLast = [op |-> "init", arg |-> 0, r |-> NoneObj, exc |-> made.exc,
                       before |-> made.st]
    /\ IdleBS
    /\ IdleTK

DoNextObject ==
    \E res \in {next_object(Entering(ob), MaxDeref)} :
        /\ OBRunning
        /\ ob' = res.st
        /\ obLast' = ObCall("next_object", 0, res)
        /\ UNCHANGED <<file, bsvars, tkvars>>

\* A seek forgets where it came from: its record keeps the ObjectStream it
\* leaves
DoObSeek(offset) ==
    \E res \in {ObSeek(Entering(ob), offset)} :
        /\ OBRunning
        /\ offset <= Len(file)
        /\ ob' = res.st
        /\ obLast' = [op |-> "seek", arg |-> offset, r |-> NoneObj, exc |-> res.exc,
                      before |-> res.st]
        /\ UNCHANGED <<file, bsvars, tkvars>>

DoGetCrossReference ==
    \E res \in {get_cross_reference(Entering(ob), MaxDeref)} :
        /\ OBRunning
        /\ ob' = res.st
        /\ obLast' = ObCall("get_cross_reference", 0, res)
        /\ UNCHANGED <<file, bsvars, tkvars>>

DoDerefObject(objn) ==
    \E res \in {deref_object(Entering(ob), PdfObjectV("IND_OBJ_REF", "ref", <<objn, 0>>),
                   MaxDeref)} :
        /\ OBRunning
        /\ ob' = res.st
        /\ obLast' = ObCall("deref_object", objn, res)
        /\ UNCHANGED <<file, bsvars, tkvars>>

NextOB ==
    \/ DoNextObject
    \/ \E offset \in 0..MaxSeek : DoObSeek(offset)
    \/ DoGetCrossReference
    \/ \E objn \in 0..MaxObjn : DoDerefObject(objn)

SpecOB == InitOB /\ [][NextOB]_vars

----------------------------------------------------------------------------
(* L1 : bulk reads *)

\* C11: a bulk read of n bytes (next_stream(n), next_byte(n) with n > 1)
\* returns exactly n bytes when n bytes remain at the read position and the
\* end-of-file value -1 when fewer remain, never a shorter sequence.
C11_BulkReadAllOrNothing ==
    (last.op \in {"next_stream", "next_byte"} /\ (last.op = "next_byte" => last.n > 1) /\ last.ok)
        => /\ last.exc = "none"
           /\ IF last.at + last.n <= Len(file)
              THEN last.r.k = "bytes" /\ Len(last.r.v) = last.n
              ELSE last.r = PyInt(EOFB)

----------------------------------------------------------------------------
(* L3 : indirect references *)

\* The ObjectStream has parsed the cross-reference section of
\* FileIndirectLength and its definition '1 0 obj 5 endobj': the token is
\* the end of line before the dictionary of the stream, at offset 108
AtStreamDict(o) ==
    /\ file = FileIndirectLength
    /\ o.xref_sec.set
    /\ o.xref_sec.sub_sections = <<[first_objn |-> 0, entry_cnt |-> 3,
                                    entries |-> <<<<0, 65535, 0>>, <<91, 0, 1>>, <<91, 0, 1>>>>]>>
    /\ o.tok.type = "LF"
    /\ TKTell(o.tk) = 108

\* C12: a stream whose Length is an indirect reference is read with the
\* integer the reference resolves to: exactly that many bytes, from the
\* first byte after the end of line that follows 'stream'; the dereference
\* leaves the read position where it was.
C12_IndirectLengthResolved ==
    (obLast.op = "next_object" /\ AtStreamDict(obLast.before))
        => /\ obLast.exc = "none"
           /\ obLast.r.type = "COUPLE"
           /\ obLast.r.kids[2] = PdfObjectV("STREAM", "bytes", <<72, 101, 108, 108, 111>>)

\* The entry the cross-reference index of o holds for object n
EntryOf(o, n) == SecGetObject(o.xref_sec.sub_sections, n)

\* The index of o has no entry for object n, or a free one
NoUsableEntry(o, n) ==
    \/ ~o.xref_sec.set
    \/ /\ EntryOf(o, n).exc = "none"
       /\ ~EntryOf(o, n).found \/ EntryOf(o, n).entry[3] = 0

\* C13: deref_object answers None, without seeking and without parsing,
\* when the cross-reference index has no entry for the object (also when no
\* section has been parsed yet) or when the entry is free.
C13_DerefMissingLeavesStream ==
    (obLast.op = "deref_object" /\ NoUsableEntry(obLast.before, obLast.arg))
        => /\ obLast.exc = "none"
           /\ obLast.r = NoneObj
           /\ ob.tk = obLast.before.tk
           /\ ob.tok = obLast.before.tok

\* What deref_object has to return for object n: the object inside the
\* definition found at the offset of the entry, when that is a definition
\* of object n
Dereferenced(o, n) ==
    LET b == next_object(ObSeek(o, EntryOf(o, n).entry[1]).st, MaxDeref - 1)
    IN  IF b.exc = "none" /\ b.r.type = "IND_OBJ_DEF" /\ b.r.v[1] = n
        THEN b.r.kids[1]
        ELSE NoneObj

\* C14: deref_object returns None or the object inside the indirect
\* definition parsed at the offset of the entry; when what is parsed there is
\* no definition, or the definition of an object with another number, it
\* returns None.
C14_DerefReturnsDefinitionOfN ==
    (/\ obLast.op = "deref_object"
     /\ obLast.exc = "none"
     /\ ~NoUsableEntry(obLast.before, obLast.arg)
     /\ EntryOf(obLast.before, obLast.arg).exc = "none")
        => obLast.r = Dereferenced(obLast.before, obLast.arg)

----------------------------------------------------------------------------
(* L3 : a caller that does nothing but repeat next_object *)

SpecOBRepeat == InitOB /\ [][DoNextObject]_vars /\ WF_vars(DoNextObject)

\* C15: an ERROR object does not stop the parser: the calls of next_object
\* that follow it move past the offending token, so a caller repeating
\* next_object receives the EOF object in the end.
C15_ErrorThenEventuallyEof ==
    (obLast.op = "next_object" /\ obLast.exc = "none" /\ obLast.r.type = "ERROR")
        ~> (obLast.op = "next_object" /\ obLast.exc = "none" /\ obLast.r.type = "EOF")

----------------------------------------------------------------------------
(* L2 : the end of the input inside a token *)

\* C16: a next_token call that starts to scan at '(', '<', '>', '/' or '%'
\* ends with a Token, whatever the input that follows, and with a Token of
\* kind EOF when the input ends before the token is complete: it raises no
\* exception, loops for ever on no input and returns nothing but a Token.
C16_TruncatedTokenIsEof ==
    (/\ tkLast.op = "next_token"
     /\ Len(tkLast.before.peeked) = 0
     /\ tkLast.before.cc \in {LPAREN, LT, GT, SLASH, PERCENT})
        => /\ tkLast.exc = "none"
           /\ HasType(tkLast.r)
           /\ file \in TruncatedFiles => tkLast.r.type = "EOF"

----------------------------------------------------------------------------
(* L2 : comments and markers *)

\* The bytes of the file that follow the look-ahead byte of t
AfterCC(t) == SubSeq(file, BSTell(t.bf) + 1, Len(file))

ByteAt(s, k) == IF k <= Len(s) THEN s[k] ELSE EOFB

\* The index of the first CR or LF of s from k on, 0 when there is none
RECURSIVE FirstEol(_, _)
FirstEol(s, k) ==
    IF k > Len(s) THEN 0
    ELSE IF s[k] \in {CR, LF} THEN k
    ELSE FirstEol(s, k + 1)

StartsVersion(s) ==
    /\ Len(s) >= 7
    /\ SubSeq(s, 1, 4) = <<80, 68, 70, MINUS>>
    /\ s[5] \in Digits /\ s[6] = DOT /\ s[7] \in Digits

StartsEofMarker(s) == Len(s) >= 4 /\ SubSeq(s, 1, 4) = <<PERCENT, 69, 79, 70>>

\* What a '%' followed by s stands for: the token, and the byte right after
\* the marker or the end of line
PercentToken(s) ==
    IF StartsVersion(s)
    THEN [tok |-> TokenD("VERSION_MARKER", "tuple", <<s[5] - 48, s[7] - 48>>),
          cc |-> ByteAt(s, 8)]
    ELSE IF StartsEofMarker(s) THEN [tok |-> Token("EOF_MARKER"), cc |-> ByteAt(s, 5)]
    ELSE LET k == FirstEol(s, 1)
         IN  IF s[k] = CR /\ ByteAt(s, k + 1) = LF
             THEN [tok |-> Token("CRLF"), cc |-> ByteAt(s, k + 2)]
             ELSE [tok |-> Token(IF s[k] = CR THEN "CR" ELSE "LF"), cc |-> ByteAt(s, k + 1)]

\* C17: wherever it stands in the input, '%' followed by PDF-d.d yields
\* VERSION_MARKER (d, d), '%%EOF' yields EOF_MARKER, also as the last thing
\* in the file, any other comment that has an end of line yields that end of
\* line, and the look-ahead byte is then the byte right after what was
\* consumed.
C17_PercentTokens ==
    (/\ tkLast.op = "next_token"
     /\ Len(tkLast.before.peeked) = 0
     /\ tkLast.before.cc = PERCENT
     /\ \/ StartsVersion(AfterCC(tkLast.before))
        \/ StartsEofMarker(AfterCC(tkLast.before))
        \/ FirstEol(AfterCC(tkLast.before), 1) # 0)
        => /\ tkLast.exc = "none"
           /\ tkLast.r = PercentToken(AfterCC(tkLast.before)).tok
           /\ tk.cc = PercentToken(AfterCC(tkLast.before)).cc

----------------------------------------------------------------------------
(* L2 : a run that the end of the input ends *)

Regular(c) == c \notin delims \cup wspace \cup {CR, LF, EOFB}

\* The look-ahead byte of t and all the bytes after it, when they are
\* regular bytes up to the end of the input
LastRun(t) == <<t.cc>> \o AfterCC(t)

\* C18: a keyword or number run that the end of the input terminates is
\* returned as the token a terminated run makes ('/Name 123 true': the third
\* token is TRUE), and the look-ahead byte is then the end of the input.
C18_RunEndedByEof ==
    (/\ tkLast.op = "next_token"
     /\ Len(tkLast.before.peeked) = 0
     /\ Regular(tkLast.before.cc)
     /\ \A k \in 1..Len(AfterCC(tkLast.before)) : Regular(AfterCC(tkLast.before)[k])
     /\ RunToken(LastRun(tkLast.before)).type # "ERROR")
        => /\ tkLast.exc = "none"
           /\ tkLast.r = RunToken(LastRun(tkLast.before))
           /\ tk.cc = EOFB

----------------------------------------------------------------------------
(* L2 : escapes in a literal string *)

\* What the bytes s after an opening parenthesis stand for, read from index
\* k at nesting depth d: ok where the string is closed and every backslash
\* starts a simple or an octal escape, v the payload, next the index right
\* after the closing parenthesis, simple and octal the numbers of escapes
RECURSIVE StringPayload(_, _, _, _, _, _)
StringPayload(s, k, d, v, simple, octal) ==
    IF k > Len(s) THEN [ok |-> FALSE, v |-> v, next |-> k, simple |-> simple, octal |-> octal]
    ELSE IF s[k] = RPAREN
    THEN IF d = 1
         THEN [ok |-> TRUE, v |-> v, next |-> k + 1, simple |-> simple, octal |-> octal]
         ELSE StringPayload(s, k + 1, d - 1, Append(v, s[k]), simple, octal)
    ELSE IF s[k] = LPAREN THEN StringPayload(s, k + 1, d + 1, Append(v, s[k]), simple, octal)
    ELSE IF s[k] # BACKSLASH THEN StringPayload(s, k + 1, d, Append(v, s[k]), simple, octal)
    ELSE IF ByteAt(s, k + 1) \in SimpleEscapes
    THEN StringPayload(s, k + 2, d, Append(v, EscapeByte(s[k + 1])), simple + 1, octal)
    ELSE IF ByteAt(s, k + 1) \in Octal
    THEN LET o == OctalRun(SubSeq(s, k + 1, Len(s)), 0, 0)
         IN  StringPayload(s, Len(s) - Len(o.rest) + 1, d, Append(v, o.v % 256),
                           simple, octal + 1)
    ELSE [ok |-> FALSE, v |-> v, next |-> k, simple |-> simple, octal |-> octal]

StringAfter(t) == StringPayload(AfterCC(t), 1, 1, <<>>, 0, 0)

\* C19: in a literal string each of the escapes \n \r \t \b \f \( \) \\
\* contributes its one byte to the payload and consumes its two input bytes,
\* the byte after the escape is scanned normally, and escaped parentheses do
\* not change the nesting depth: a closed string with such escapes (and no
\* octal escape) yields LITERAL_STRING with that payload, and the look-ahead
\* byte is then the byte after the closing parenthesis.
C19_SimpleEscapes ==
    (/\ tkLast.op = "next_token"
     /\ Len(tkLast.before.peeked) = 0
     /\ tkLast.before.cc = LPAREN
     /\ StringAfter(tkLast.before).ok
     /\ StringAfter(tkLast.before).simple > 0
     /\ StringAfter(tkLast.before).octal = 0)
        => /\ tkLast.exc = "none"
           /\ tkLast.r = TokenD("LITERAL_STRING", "bytes", StringAfter(tkLast.before).v)
           /\ tk.cc = ByteAt(AfterCC(tkLast.before), StringAfter(tkLast.before).next)

\* C20: in a literal string a backslash followed by one, two or three octal
\* digits contributes the single byte of that octal number modulo 256 and
\* consumes the backslash and the digits present, the byte after the last
\* digit being scanned normally: a closed string with such escapes (and no
\* other escape) yields LITERAL_STRING with that payload, and the look-ahead
\* byte is then the byte after the closing parenthesis.
C20_OctalEscapes ==
    (/\ tkLast.op = "next_token"
     /\ Len(tkLast.before.peeked) = 0
     /\ tkLast.before.cc = LPAREN
     /\ StringAfter(tkLast.before).ok
     /\ StringAfter(tkLast.before).octal > 0
     /\ StringAfter(tkLast.before).simple = 0)
        => /\ tkLast.exc = "none"
           /\ tkLast.r = TokenD("LITERAL_STRING", "bytes", StringAfter(tkLast.before).v)
           /\ tk.cc = ByteAt(AfterCC(tkLast.before), StringAfter(tkLast.before).next)

----------------------------------------------------------------------------
(* L3 : a dictionary and its stream *)

\* The dictionary { Length: n }
LengthDict(n) ==
    [PdfObject("DICTIONARY") EXCEPT !.k = "dict", !.keys = <<KeyLength>>,
                                    !.kids = <<PdfObjectV("INTEGER", "int", <<n>>)>>]

\* The first call made on the ObjectStream of the file
FirstCall == Entering(obLast.before) = Entering(ObInit.st)

\* C1: for a dictionary whose Length is a direct integer n, followed (ends
\* of line ignored) by 'stream' and LF or CRLF, n bytes, one end of line and
\* 'endstream', next_object returns the couple of that dictionary and the
\* stream of exactly those n bytes.
C1_DirectLengthStream ==
    \A c \in StreamCases :
        (file = StreamFile(c) /\ obLast.op = "next_object" /\ FirstCall)
            => /\ obLast.exc = "none"
               /\ obLast.r = PdfObjectK("COUPLE", "couple",
                                 <<LengthDict(Len(c.body)),
                                   PdfObjectV("STREAM", "bytes", c.body)>>)

----------------------------------------------------------------------------
(* L3 : the look-ahead after an integer *)

\* The two tokens that follow the look-ahead token of o
Tok2(o) == next_token(o.tk)
Tok3(o) == next_token(Tok2(o).st)

\* The look-ahead token of o is followed by an INTEGER and the keyword kw
Followed(o, kw) ==
    /\ Tok2(o).exc = "none" /\ HasType(Tok2(o).r) /\ Tok2(o).r.type = "INTEGER"
    /\ Tok3(o).exc = "none" /\ HasType(Tok3(o).r) /\ Tok3(o).r.type = kw

\* C3: when the look-ahead token is INTEGER n, next_object returns the
\* definition (n, g) if INTEGER g and 'obj' follow (unless the object inside
\* fails), the reference (n, g) if INTEGER g and 'R' follow, and in every
\* other case INTEGER n, after which the tokens read during the look-ahead
\* are delivered again: the look-ahead token is the first of them and the
\* next token scanned is the second.
C3_ThreeIntegerLookAhead ==
    (/\ obLast.op = "next_object"
     /\ HasType(obLast.before.tok)
     /\ obLast.before.tok.type = "INTEGER")
        => IF Followed(obLast.before, "OBJECT_BEGIN")
           THEN (obLast.exc = "none" /\ obLast.r.type \notin Failures)
                    => /\ obLast.r.type = "IND_OBJ_DEF"
                       /\ obLast.r.v = obLast.before.tok.data \o Tok2(obLast.before).r.data
           ELSE IF Followed(obLast.before, "OBJ_REF")
           THEN /\ obLast.exc = "none"
                /\ obLast.r = IndirectRef(obLast.before.tok, Tok2(obLast.before).r)
           ELSE /\ obLast.exc = "none"
                /\ obLast.r = PdfObjectV("INTEGER", "int", obLast.before.tok.data)
                /\ ob.tok = Tok2(obLast.before).r
                /\ next_token(ob.tk).r = Tok3(obLast.before).r

----------------------------------------------------------------------------
(* L3 : the line that ends a cross-reference section *)

\* The first token of the line at which the last get_subsection_header of o
\* began, scanned afresh from that offset
Rescan(o) == next_token(TKSeek(o.tk, o.hdrAt))

XrefExample ==
    [PdfObject("XREF_SECTION") EXCEPT
        !.k = "xref",
        !.xref = <<[first_objn |-> 0, entry_cnt |-> 3,
                    entries |-> <<<<0, 65535, 0>>, <<17, 0, 1>>, <<81, 0, 1>>>>]>>]

TrailerExample ==
    PdfObjectK("TRAILER", "trailer",
        <<[PdfObject("DICTIONARY") EXCEPT
              !.k = "dict", !.keys = <<<<83, 105, 122, 101>>>>,
              !.kids = <<PdfObjectV("INTEGER", "int", <<3>>)>>]>>)

\* C2: when a cross-reference section is returned, the look-ahead token is
\* the first token of the line that ended the section and the tokeniser
\* stands right after that token, no byte of the line lost; for the file
\* 'xref' '0 3' three entries 'trailer' '<< /Size 3 >>' the section is one
\* sub-section (0, 3) with its three entries and the next object is
\* the trailer { Size: 3 }.
C2_LookAheadAfterXref ==
    /\ (obLast.exc = "none" /\ obLast.r.type = "XREF_SECTION")
          => /\ Rescan(ob).exc = "none"
             /\ ob.tok = Rescan(ob).r
             /\ ob.tk.cc = Rescan(ob).st.cc
             /\ BSTell(ob.tk.bf) = BSTell(Rescan(ob).st.bf)
    /\ (file = FileXref /\ obLast.op = "next_object" /\ FirstCall)
          => obLast.exc = "none" /\ obLast.r = XrefExample
    /\ (file = FileXref /\ obLast.op = "next_object" /\ obLast.exc = "none"
            /\ obLast.before.tok.type = "TRAILER")
          => obLast.r = TrailerExample

C2_SectionThenTrailer ==
    /\ file = FileXref
    /\ obLast.op = "next_object"
    /\ obLast.before.tok.type = "TRAILER"
    /\ TKTell(obLast.before.tk) = 76
    /\ obLast.r = TrailerExample

----------------------------------------------------------------------------
(* L3 : the look-ahead token on return *)

\* C4: whenever next_object returns, whatever it returns, the look-ahead
\* token was read by the tokeniser during that call and is the last token
\* the tokeniser has handed over: the first token after the returned
\* object, read but not analysed, and none beyond it consumed. (At the end
\* of the input there is no token to read: the EOF object is left aside.)
C4_LookAheadOnEveryReturn ==
    (obLast.op = "next_object" /\ obLast.exc = "none" /\ obLast.r.type # "EOF")
        => /\ ob.scans > 0
           /\ ob.tokAt = ob.scans

----------------------------------------------------------------------------
(* L2 : the parentheses of a literal string *)

\* The index in s, the bytes after an opening parenthesis, of the first
\* unescaped ')' that brings the nesting depth d to 0, scanning from k; a
\* backslash and the byte after it are no parentheses; 0 if there is none
RECURSIVE ClosingParen(_, _, _)
ClosingParen(s, k, d) ==
    IF k > Len(s) THEN 0
    ELSE IF s[k] = BACKSLASH THEN ClosingParen(s, k + 2, d)
    ELSE IF s[k] = LPAREN THEN ClosingParen(s, k + 1, d + 1)
    ELSE IF s[k] # RPAREN THEN ClosingParen(s, k + 1, d)
    ELSE IF d = 1 THEN k
    ELSE ClosingParen(s, k + 1, d - 1)

ClosingAfter(t) == ClosingParen(AfterCC(t), 1, 1)

\* C21: every LITERAL_STRING returned ends at the first unescaped ')' that
\* brings the nesting depth, 1 after the opening parenthesis, up by one at
\* each unescaped '(' and down by one at each unescaped ')', to 0: the
\* look-ahead byte is the byte after it; the two outer parentheses are not
\* in the payload and every nested one is: a string without backslash has
\* the bytes between them as its payload.
C21_LiteralStringNesting ==
    (/\ tkLast.op = "next_token"
     /\ Len(tkLast.before.peeked) = 0
     /\ tkLast.before.cc = LPAREN
     /\ tkLast.exc = "none"
     /\ tkLast.r.type = "LITERAL_STRING")
        => /\ ClosingAfter(tkLast.before) > 0
           /\ tk.cc = ByteAt(AfterCC(tkLast.before), ClosingAfter(tkLast.before) + 1)
           /\ BSTell(tk.bf) = BSTell(tkLast.before.bf)
                                 + Min(ClosingAfter(tkLast.before) + 1,
                                       Len(AfterCC(tkLast.before)))
           /\ (\A k \in 1..ClosingAfter(tkLast.before) : AfterCC(tkLast.before)[k] # BACKSLASH)
                 => tkLast.r.data = SubSeq(AfterCC(tkLast.before), 1,
                                           ClosingAfter(tkLast.before) - 1)

----------------------------------------------------------------------------
(* L2 : hex strings *)

\* The number of hex digits s begins with, counted from index k
RECURSIVE HexDigits(_, _)
HexDigits(s, k) == IF k <= Len(s) /\ s[k] \in hex_digit THEN HexDigits(s, k + 1) ELSE k - 1

\* The bytes that the hex digits d stand for, a missing last digit being 0
HexPayload(d) ==
    [i \in 1..((Len(d) + 1) \div 2) |->
        16 * DigitVal(d[2 * i - 1]) + (IF 2 * i <= Len(d) THEN DigitVal(d[2 * i]) ELSE 0)]

\* t stands on '<' followed by d >= 1 hex digits and '>'
AtHexString(t) ==
    /\ t.cc = LT
    /\ HexDigits(AfterCC(t), 1) >= 1
    /\ ByteAt(AfterCC(t), HexDigits(AfterCC(t), 1) + 1) = GT

----------------------------------------------------------------------------
(* L2 : malformed lexemes *)

\* The index of the first byte of s that ends a name, Len(s) + 1 if none
RECURSIVE NameEnd(_, _)
NameEnd(s, k) ==
    IF k > Len(s) \/ s[k] \in delims \cup wspace \cup {CR, LF} THEN k
    ELSE NameEnd(s, k + 1)

\* The name s (the bytes after '/') holds a byte outside 33..126, or a '#'
\* that two hex digits do not follow
MalformedName(s) ==
    \E k \in 1..(NameEnd(s, 1) - 1) :
        \/ s[k] < 33 \/ s[k] > 126
        \/ /\ s[k] = HASH
           /\ ~(ByteAt(s, k + 1) \in hex_digit /\ ByteAt(s, k + 2) \in hex_digit)

\* The hex string s (the bytes after '<') holds, after its first digits, a
\* byte that is neither a hex digit nor '>'
MalformedHex(s) ==
    /\ HexDigits(s, 1) >= 1
    /\ HexDigits(s, 1) < Len(s)
    /\ s[HexDigits(s, 1) + 1] # GT

\* t stands on a malformed lexeme
AtMalformed(t) ==
    \/ t.cc = LT /\ MalformedHex(AfterCC(t))
    \/ t.cc = SLASH /\ MalformedName(AfterCC(t))
    \/ t.cc \in {RPAREN, RBRACE}
    \/ t.cc = GT /\ Len(AfterCC(t)) > 0 /\ AfterCC(t)[1] # GT

\* C23: a hex string with a byte that is neither a hex digit nor '>', a
\* name with a byte outside 33..126 or with a '#' that two hex digits do not
\* follow, and a stray ')', '>' or '}' each make next_token return an ERROR
\* token, never a HEX_STRING or NAME.
C23_MalformedIsError ==
    (/\ tkLast.op = "next_token"
     /\ Len(tkLast.before.peeked) = 0
     /\ AtMalformed(tkLast.before))
        => /\ tkLast.exc = "none"
           /\ HasType(tkLast.r)
           /\ tkLast.r.type = "ERROR"

----------------------------------------------------------------------------
(* L2 : the look-ahead byte and the read position *)

\* C24: whenever next_token, peek_token, get_subsection_header or
\* get_subsection_entry returns, on every return path, the look-ahead byte
\* is the byte right before the read position of the byte source (-1 at the
\* end of the input): no path leaves a stale look-ahead byte or consumes a
\* byte without storing it.
C24_LookAheadByteInPlace ==
    (/\ tkLast.op \in {"next_token", "peek_token", "get_subsection_header",
                       "get_subsection_entry"}
     /\ tkLast.exc = "none"
     /\ CCInPlace(tkLast.before))
        => CCInPlace(tk)

----------------------------------------------------------------------------
(* L2 : the entries of a cross-reference sub-section *)

\* The 20 bytes get_subsection_entry has to examine: the look-ahead byte of
\* t and the next 19
Entry20(t) == <<t.cc>> \o SubSeq(AfterCC(t), 1, 19)

\* C25: get_subsection_entry examines the look-ahead byte and the next 19
\* bytes: ten digits, SP, five digits, SP, 'n' or 'f' and CRLF, SP LF or
\* SP CR yield SUBSECTION_ENTRY with the values of the two digit groups and
\* whether the flag is 'n', the byte at offset +20 becoming the look-ahead
\* byte; other 20 bytes yield ERROR; fewer than 20 bytes yield EOF.
C25_SubsectionEntry ==
    (/\ tkLast.op = "get_subsection_entry"
     /\ Len(tkLast.before.peeked) = 0
     /\ CCInPlace(tkLast.before))
        => /\ tkLast.exc = "none"
           /\ HasType(tkLast.r)
           /\ IF tkLast.before.cc = EOFB \/ Len(AfterCC(tkLast.before)) < 19
              THEN tkLast.r.type = "EOF"
              ELSE IF IsEntry(Entry20(tkLast.before))
              THEN /\ tkLast.r =
                        TokenD("SUBSECTION_ENTRY", "tuple",
                               <<Decimal(SubSeq(Entry20(tkLast.before), 1, 10), 0),
                                 Decimal(SubSeq(Entry20(tkLast.before), 12, 16), 0),
                                 IF Entry20(tkLast.before)[18] = 110 THEN 1 ELSE 0>>)
                   /\ tk.cc = ByteAt(AfterCC(tkLast.before), 20)
              ELSE tkLast.r.type = "ERROR"

----------------------------------------------------------------------------
(* L3 : the sub-sections of a cross-reference section *)

\* The sub-sections of the file FileXrefSubs, in the order of their headers
SubsExample ==
    <<[first_objn |-> 0, entry_cnt |-> 0, entries |-> <<>>],
      [first_objn |-> 3, entry_cnt |-> 2, entries |-> <<<<17, 0, 1>>, <<81, 1, 0>>>>],
      [first_objn |-> 7, entry_cnt |-> 1, entries |-> <<<<99, 0, 1>>>>]>>

\* C26: in every cross-reference section returned, each sub-section holds
\* exactly entry_cnt entries, also for entry_cnt = 0; the entries are in
\* file order and the sub-sections in the order of their headers.
C26_SubsectionsComplete ==
    (obLast.exc = "none" /\ obLast.r.type = "XREF_SECTION")
        => /\ \A i \in 1..Len(obLast.r.xref) :
                 Len(obLast.r.xref[i].entries) = obLast.r.xref[i].entry_cnt
           /\ (file = FileXrefSubs /\ obLast.op = "next_object" /\ FirstCall)
                 => obLast.r.xref = SubsExample

----------------------------------------------------------------------------
(* L3 : what follows the keyword stream *)

\* C27: when the token after the keyword stream is a lone CR, or any token
\* other than LF and CRLF, next_object returns ERROR and no stream: the
\* tokeniser has read that token and nothing after it.
C27_StreamNeedsLF ==
    \A after \in BadStreamTails :
        (file = StreamThen(after) /\ obLast.op = "next_object" /\ FirstCall)
            => /\ obLast.exc = "none"
               /\ obLast.r = PdfObject("ERROR")
               /\ ob.tk.cc = Tok2(SkipEolAfter(get_dictionary(obLast.before, MaxDeref).st).st).st.cc
               /\ BSTell(ob.tk.bf) =
                     BSTell(Tok2(SkipEolAfter(get_dictionary(obLast.before, MaxDeref).st).st).st.bf)

\* 'stream' CR 'Hello' has been refused
C27_LoneCRRefused ==
    /\ file = StreamThen(<<CR>>)
    /\ obLast.op = "next_object"
    /\ FirstCall
    /\ obLast.r = PdfObject("ERROR")
    /\ ob.tk.cc = 72

----------------------------------------------------------------------------
(* L3 : a stream without a usable Length *)

\* C28: when a dictionary is followed by the keyword stream and its Length
\* is missing, is neither an integer nor an indirect reference, or is a
\* reference that does not resolve to an integer, next_object returns ERROR
\* and reads nothing after the keyword stream.
C28_BadLengthIsError ==
    \A entries \in BadLengthEntries :
        (file = DictThenStream(entries) /\ obLast.op = "next_object" /\ FirstCall)
            => /\ obLast.exc = "none"
               /\ obLast.r = PdfObject("ERROR")
               /\ ob.tok.type = "STREAM_BEGIN"

----------------------------------------------------------------------------
(* L3 : dictionaries *)

\* The dictionary of the keys and their values, in the order of the keys
Dict(keys, kids) ==
    [PdfObject("DICTIONARY") EXCEPT !.k = "dict", !.keys = keys, !.kids = kids]

\* The dictionary of FileDictPairs: K and L occur twice, the last value of
\* each is kept; an array and a dictionary are single values
DictPairsExample ==
    Dict(<<<<75>>, <<76>>>>,
         <<Dict(<<<<77>>>>, <<PdfObjectV("STRING", "bytes", <<97>>)>>),
           PdfObjectV("INTEGER", "int", <<3>>)>>)

\* C29: get_dictionary builds a mapping with unique keys from the (Name,
\* object) pairs between '<<' and the matching '>>': a key that occurs
\* again takes the value of its last occurrence, ends of line between the
\* pairs are skipped, an array or a dictionary is one value, and where a key
\* is expected a token other than a Name, an end of line or '>>' makes the
\* result ERROR.
C29_DictionaryPairs ==
    /\ (obLast.op = "next_object" /\ obLast.exc = "none" /\ obLast.r.type = "DICTIONARY")
          => /\ Len(obLast.r.keys) = Len(obLast.r.kids)
             /\ \A i, j \in 1..Len(obLast.r.keys) :
                   obLast.r.keys[i] = obLast.r.keys[j] => i = j
    /\ (/\ obLast.op = "next_object"
        /\ obLast.before.tok.type = "DICT_BEGIN"
        /\ Tok2(obLast.before).exc = "none"
        /\ HasType(Tok2(obLast.before).r)
        /\ Tok2(obLast.before).r.type \notin {"NAME", "DICT_END", "EOF"} \cup EOLs)
          => obLast.exc = "none" /\ obLast.r = PdfObject("ERROR")
    /\ (obLast.op = "next_object" /\ FirstCall)
          => /\ file = FileDictPairs
                  => obLast.exc = "none" /\ obLast.r = DictPairsExample
             /\ file = FileDictNoKey
                  => obLast.exc = "none" /\ obLast.r = PdfObject("ERROR")
             /\ file = FileDictBackslash
                  => /\ obLast.exc = "none"
                     /\ obLast.r = Dict(<<<<97, BACKSLASH>>>>,
                                        <<PdfObjectV("INTEGER", "int", <<1>>)>>)

----------------------------------------------------------------------------
(* L1 : next_byte alone *)

\* next_byte is the only method called on the ByteStream so far
plain == called \subseteq {"next_byte"}

\* What next_byte(n) has to return at offset at: the n bytes of the file
\* from there (an int when n = 1), and -1 when fewer than n bytes remain
BytesAt(at, n) ==
    IF at + n > Len(file) THEN PyInt(EOFB)
    ELSE IF n = 1 THEN PyInt(file[at + 1])
    ELSE PyBytes(Slice(file, at, at + n))

\* C30: for every file and every block size, when next_byte(n) is the only
\* method called (no peek), every call returns the bytes of the file that
\* follow those already returned, also across block boundaries, and -1 once
\* no byte remains, however many calls are made after the end.
C30_NextByteInFileOrder ==
    (last.op = "next_byte" /\ plain)
        => last.exc = "none" /\ last.r = BytesAt(last.at, last.n)

\* C30 up to the first -1: the calls made before any call has failed
C30_UntilFirstEof ==
    (last.op = "next_byte" /\ plain /\ last.ok)
        => last.exc = "none" /\ last.r = BytesAt(last.at, last.n)

----------------------------------------------------------------------------
(* L1 : peek_byte *)

\* C31: at every read position with at least n bytes left in the file,
\* peek_byte(n) returns the n bytes that the next_byte(n) made right after
\* it returns, which are the n bytes of the file at that position, also
\* when they reach beyond the block that follows the current one.
C31_PeekIsNextBytes ==
    (/\ prev.op = "peek_byte" /\ last.op = "next_byte" /\ prev.n = last.n
     /\ prev.ok /\ prev.at + prev.n <= Len(file))
        => /\ prev.exc = "none" /\ last.exc = "none"
           /\ prev.r = last.r
           /\ last.r = BytesAt(prev.at, prev.n)

\* next_byte and peek_byte are the only methods called on the ByteStream
OnlyBytes == called \subseteq {"next_byte", "peek_byte"}

\* C32: peek_byte does not move the read position. In a state reached by
\* next_byte and peek_byte calls, a peek_byte(n) repeated returns the same
\* value, and a next_byte returns what it returns when no peek is made: the
\* bytes of the file that follow those already returned (-1 when fewer than
\* n remain), also after a peek that loaded the next block.
C32_PeekLeavesPosition ==
    /\ (OnlyBytes /\ prev.op = "peek_byte" /\ last.op = "peek_byte" /\ prev.n = last.n)
          => last.exc = "none" /\ last.r = prev.r
    /\ (OnlyBytes /\ last.op = "next_byte" /\ last.ok)
          => last.exc = "none" /\ last.r = BytesAt(last.at, last.n)

\* C32 away from the end of the file: the peek repeated has returned
\* bytes, the next_byte asks for bytes the file still has
C32_BeforeTheEnd ==
    /\ (OnlyBytes /\ prev.op = "peek_byte" /\ last.op = "peek_byte" /\ prev.n = last.n
          /\ prev.r # PyInt(EOFB))
          => last.exc = "none" /\ last.r = prev.r
    /\ (OnlyBytes /\ last.op = "next_byte" /\ last.ok /\ last.at + last.n <= Len(file))
          => last.exc = "none" /\ last.r = BytesAt(last.at, last.n)

\* C33: the end of the file is reported through -1 only. In a state reached
\* by next_byte and peek_byte calls no call raises; a peek_byte(n) made with
\* fewer than n bytes left returns -1; the next_byte calls return the bytes
\* that remain, in order, whatever peeks were made, and -1 on every call
\* once a next_byte has returned -1.
C33_EofIsMinusOne ==
    /\ (OnlyBytes /\ last.op \in {"next_byte", "peek_byte"}) => last.exc = "none"
    /\ (OnlyBytes /\ last.op = "peek_byte" /\ last.ok /\ last.at + last.n > Len(file))
          => last.r = PyInt(EOFB)
    /\ (OnlyBytes /\ last.op = "next_byte" /\ last.ok)
          => last.r = BytesAt(last.at, last.n)
    /\ (OnlyBytes /\ last.op = "next_byte" /\ ~last.ok)
          => last.r = PyInt(EOFB)

----------------------------------------------------------------------------
(* L1 : reset *)

\* The n bytes of the file from offset at, as the call op returns them
Returned(op, at, n) ==
    IF op = "next_stream" THEN PyBytes(Slice(file, at, at + n)) ELSE BytesAt(at, n)

\* C34: reset(offset) discards the buffer and the peek-ahead block: in
\* whatever state it is called, the next_byte, peek_byte or next_stream made
\* right after it returns the bytes of the file that start at offset.
C34_ResetThenReadAtOffset ==
    (/\ prev.op = "reset" /\ last.op \in {"next_byte", "peek_byte", "next_stream"}
     /\ prev.n + last.n <= Len(file))
        => /\ last.exc = "none"
           /\ last.r = Returned(last.op, prev.n, last.n)

\* C34 for the calls that do not peek further than one block
C34_ExceptWidePeek ==
    (/\ prev.op = "reset" /\ last.op \in {"next_byte", "peek_byte", "next_stream"}
     /\ prev.n + last.n <= Len(file)
     /\ last.op = "peek_byte" => last.n <= bs.blk_sz)
        => /\ last.exc = "none"
           /\ last.r = Returned(last.op, prev.n, last.n)

----------------------------------------------------------------------------
(* L3 : errors inside a dictionary *)

\* C35: a structural error inside a dictionary closes the dictionary with
\* an error. No dictionary returned holds an ERROR as the value of a key;
\* a key directly followed by '>>' makes next_object return ERROR for the
\* dictionary; and over '<< /K >> /A 1 >>' the parse stops at the first
\* '>>': the name A and what follows it are not taken into the dictionary.
C35_DictionaryErrorCloses ==
    /\ (obLast.op = "next_object" /\ obLast.exc = "none" /\ obLast.r.type = "DICTIONARY")
          => \A i \in 1..Len(obLast.r.kids) : obLast.r.kids[i].type # "ERROR"
    /\ (/\ obLast.op = "next_object" /\ obLast.before.tok.type = "DICT_BEGIN"
        /\ Tok2(obLast.before).exc = "none" /\ HasType(Tok2(obLast.before).r)
        /\ Tok2(obLast.before).r.type = "NAME"
        /\ Tok3(obLast.before).exc = "none" /\ HasType(Tok3(obLast.before).r)
        /\ Tok3(obLast.before).r.type = "DICT_END")
          => obLast.exc = "none" /\ obLast.r = PdfObject("ERROR")
    /\ (obLast.op = "next_object" /\ FirstCall /\ file = FileDictKeyOnly)
          => /\ obLast.exc = "none" /\ obLast.r = PdfObject("ERROR")
             /\ TKTell(ob.tk) <= 10

----------------------------------------------------------------------------
(* L3 : missing structural tokens *)

\* C36: when a required structural token is missing next_object returns
\* ERROR, never None (nor an exception for want of an object) nor an object
\* of another kind. A definition 'n g obj' yields the definition, ERROR or
\* EOF; 'trailer' yields a TRAILER holding a dictionary, ERROR or EOF; and
\* ERROR is returned for a body not followed by 'endobj' (after at most one
\* end of line), for 'trailer' without '<<', for a trailer dictionary that
\* fails to parse, and for stream bytes not followed by an end of line and
\* 'endstream'.
C36_MissingTokenIsError ==
    /\ (/\ obLast.op = "next_object" /\ obLast.before.tok.type = "INTEGER"
        /\ Followed(obLast.before, "OBJECT_BEGIN"))
          => /\ obLast.exc = "none"
             /\ obLast.r.type \in {"IND_OBJ_DEF", "ERROR", "EOF"}
    /\ (obLast.op = "next_object" /\ obLast.before.tok.type = "TRAILER")
          => /\ obLast.exc = "none"
             /\ obLast.r.type \in {"TRAILER", "ERROR", "EOF"}
             /\ obLast.r.type = "TRAILER" => obLast.r.kids[1].type = "DICTIONARY"
    /\ (obLast.op = "next_object" /\ FirstCall /\ file \in MissingTokenFiles)
          => obLast.exc = "none" /\ obLast.r = PdfObject("ERROR")

\* C36 for the trailer without '<<' and the stream without its end
C36_TrailerAndStreamEnd ==
    (/\ obLast.op = "next_object" /\ FirstCall
     /\ file \in {FileTrailerNoDict, FileStreamNoEnd, FileStreamNoEol})
        => obLast.exc = "none" /\ obLast.r = PdfObject("ERROR")

----------------------------------------------------------------------------
(* L3 : the lookup in the cross-reference index *)

\* The object numbers looked up
ObjNumbers == 0..(MaxObjn + 1)

\* The sub-sections of subs, by position, whose range holds objn
Holding(subs, objn) ==
    {i \in 1..Len(subs) :
        subs[i].first_objn <= objn /\ objn < subs[i].first_objn + subs[i].entry_cnt}

\* The first of them
FirstHolding(subs, objn) ==
    CHOOSE i \in Holding(subs, objn) : \A j \in Holding(subs, objn) : i <= j

\* C37: get_object(objn, gen) returns the entry at index objn - first_objn
\* of the first sub-section, in the order of insertion, whose range
\* [first_objn, first_objn + entry_cnt) holds objn, and None when no
\* sub-section holds it; a later sub-section never overrides an earlier one.
\* (gen is not read by the lookup.)
C37_LookupFirstSubsection ==
    ob.xref_sec.set =>
        \A objn \in ObjNumbers :
            IF Holding(ob.xref_sec.sub_sections, objn) = {}
            THEN EntryOf(ob, objn) = [found |-> FALSE, entry |-> <<>>, exc |-> "none"]
            ELSE /\ EntryOf(ob, objn).exc = "none" /\ EntryOf(ob, objn).found
                 /\ EntryOf(ob, objn).entry =
                       ob.xref_sec.sub_sections[FirstHolding(ob.xref_sec.sub_sections, objn)]
                          .entries[objn - ob.xref_sec.sub_sections[
                                      FirstHolding(ob.xref_sec.sub_sections, objn)].first_objn + 1]

\* deref_object has looked up object 1 in the index of FileXrefOverlap, whose
\* two sub-sections both hold it with different entries, and has gone to the
\* offset of the first one
C37_Witness ==
    /\ file = FileXrefOverlap
    /\ obLast.op = "deref_object" /\ obLast.arg = 1
    /\ Holding(obLast.before.xref_sec.sub_sections, 1) = {1, 2}
    /\ obLast.before.xref_sec.sub_sections[1].entries[2] = <<3, 0, 1>>
    /\ obLast.before.xref_sec.sub_sections[2].entries[1] = <<9, 0, 1>>
    /\ EntryOf(obLast.before, 1).entry = <<3, 0, 1>>
    /\ Holding(ob.xref_sec.sub_sections, 0) = {1}
    /\ Holding(ob.xref_sec.sub_sections, 2) = {2}
    /\ Holding(ob.xref_sec.sub_sections, 3) = {}

----------------------------------------------------------------------------
(* L3 : the index after a cross-reference section is parsed again *)

\* The ObjectStream o with no index, as after construction
NoIndex(o) == [o EXCEPT !.xref_sec = ObInit.st.xref_sec]

\* C38: a next_object call that parses a cross-reference section starts a
\* fresh index: after it the ObjectStream has an index, which holds the
\* sub-sections completed by this parse and nothing of the index it had
\* before (it is the index the same call leaves in an ObjectStream that had
\* none), and a section returned holds the sub-sections of the index.
C38_FreshIndexPerSection ==
    (/\ obLast.op = "next_object" /\ obLast.exc = "none"
     /\ HasType(obLast.before.tok) /\ obLast.before.tok.type = "XREF_SECTION")
        => /\ ob.xref_sec.set
           /\ ob.xref_sec.sub_sections =
                 next_object(Entering(NoIndex(obLast.before)), MaxDeref).st.xref_sec.sub_sections
           /\ obLast.r.type = "XREF_SECTION" => obLast.r.xref = ob.xref_sec.sub_sections

\* C38 for the sections whose keyword is followed by an end of line
C38_AfterXrefLine ==
    (/\ obLast.op = "next_object" /\ obLast.exc = "none"
     /\ HasType(obLast.before.tok) /\ obLast.before.tok.type = "XREF_SECTION"
     /\ Tok2(obLast.before).exc = "none" /\ HasType(Tok2(obLast.before).r)
     /\ Tok2(obLast.before).r.type \in EOLs)
        => /\ ob.xref_sec.set
           /\ ob.xref_sec.sub_sections =
                 next_object(Entering(NoIndex(obLast.before)), MaxDeref).st.xref_sec.sub_sections
           /\ obLast.r.type = "XREF_SECTION" => obLast.r.xref = ob.xref_sec.sub_sections

----------------------------------------------------------------------------
(* L2, L3 : the end of the input, once reported *)

\* C39: Eof is absorbing while no seek is made: when next_token has
\* returned EOF, the next_token or peek_token call made next returns EOF
\* too (and so does every later one).
C39_EofAbsorbing ==
    [][(/\ tkLast.op = "next_token" /\ tkLast.exc = "none" /\ tkLast.r.type = "EOF"
        /\ tkLast'.op \in {"next_token", "peek_token"})
          => (tkLast'.exc = "none" /\ tkLast'.r.type = "EOF")]_vars

\* C39 for the objects: when next_object has returned EOF, be it from inside
\* an array, a dictionary, a stream or a cross-reference section, the
\* next_object call made next returns EOF too.
C39_ObjectEofAbsorbing ==
    [][(/\ obLast.op = "next_object" /\ obLast.exc = "none" /\ obLast.r.type = "EOF"
        /\ obLast'.op = "next_object")
          => (obLast'.exc = "none" /\ obLast'.r.type = "EOF")]_vars

====
